---- MODULE Spec2Model ----
(***************************************************************************)
(* wing-scrape: the Hot Ones episode scraper (hot-ones-scraper.ts), the    *)
(* YouTube feed key map (youtube-rss-enhancer.ts) and the two entry points *)
(* (hot-ones-main.ts, interactive-cli.ts) as state machines.               *)
(*                                                                         *)
(* Texts are TLA+ strings handled with Len, SubSeq and \o, so that the     *)
(* regular expressions, trims and substring tests of the source are        *)
(* computed character by character.                                        *)
(***************************************************************************)
EXTENDS Integers, Sequences, FiniteSets, TLC

VARIABLES
    tz,          \* minutes east of UTC of the process's local time zone
    entry,       \* which entry point the process runs: "none", "main", "cli"
    epc,         \* position of the entry point
    exitCode,    \* process exit code, -1 while the process has not exited
    cacheFile,   \* content of hot-ones-report.json
    episodes,    \* HotOnesInteractiveCLI.episodes
    pc,          \* position of scrapeAllEpisodes
    timer,       \* the setTimeout of scrapeAllEpisodes: "none", "armed", "cleared", "fired"
    elapsed,     \* milliseconds since the timer was armed
    netCalls,    \* outbound network calls issued so far, in order
    net,         \* the page request on the wire: "none", "pending", "headers" (a 2xx
                 \* response arrived), "http" (a non-2xx response arrived), "error"
                 \* (it failed), "aborted", "body-error", "complete" (the body was read)
    html,        \* the fetched body, as the document it parses to
    result,      \* how scrapeAllEpisodes settled: "pending", "returned", "thrown"
    returned,    \* the list scrapeAllEpisodes returned
    feedSrc,     \* what the feed URL serves: "down" or [items |-> <<...>>]
    feedPc,      \* position of fetchYouTubeData
    feedItems,   \* feed.items of the parsed feed
    feedIdx,     \* number of feed items the loop has processed
    videoMap,    \* the local videoMap of fetchYouTubeData: key -> video data
    feedResult,  \* the Map fetchYouTubeData returned
    summary,     \* the data-quality counts hot-ones-main printed, NoSummary before
    session,     \* the readline interface and the displayEpisode calls of the CLI
    call         \* a single function applied on its own: its name, arguments and result

vars == <<tz, entry, epc, exitCode, cacheFile, episodes, pc, timer, elapsed,
          netCalls, net, html, result, returned,
          feedSrc, feedPc, feedItems, feedIdx, videoMap, feedResult, summary, session,
          call>>

scrapeVars == <<pc, timer, elapsed, netCalls, net, html, result, returned>>
entryVars == <<entry, epc, exitCode, cacheFile, episodes, summary, session>>
feedVars == <<feedSrc, feedPc, feedItems, feedIdx, videoMap, feedResult>>

(***************************************************************************)
(* Strings                                                                 *)
(***************************************************************************)
Chr(s, i) == IF 1 <= i /\ i <= Len(s) THEN SubSeq(s, i, i) ELSE ""

\* the characters i..j of s, cut to the positions s has
Slice(s, i, j) ==
    LET lo == IF i < 1 THEN 1 ELSE i
        hi == IF j > Len(s) THEN Len(s) ELSE j
    IN  IF lo > hi THEN "" ELSE SubSeq(s, lo, hi)

Digits == "0123456789"
UpperLetters == "ABCDEFGHIJKLMNOPQRSTUVWXYZ"
LowerLetters == "abcdefghijklmnopqrstuvwxyz"

IndexIn(alphabet, c) ==
    IF \E i \in 1..Len(alphabet) : SubSeq(alphabet, i, i) = c
    THEN CHOOSE i \in 1..Len(alphabet) : SubSeq(alphabet, i, i) = c
    ELSE 0

CharsOf(alphabet) == {SubSeq(alphabet, i, i) : i \in 1..Len(alphabet)}
DigitChars == CharsOf(Digits)
LetterChars == CharsOf(UpperLetters) \cup CharsOf(LowerLetters)
UpperChars == CharsOf(UpperLetters)

IsDigit(c) == c \in DigitChars
IsLetter(c) == c \in LetterChars
IsWordChar(c) == IsLetter(c) \/ IsDigit(c) \/ c = "_"
IsSpace(c) == c \in {" ", "\t", "\n"}

SetMin(S) == CHOOSE x \in S : \A y \in S : x <= y
SetMax(S) == CHOOSE x \in S : \A y \in S : y <= x

\* String.prototype.trim
Trim(s) ==
    LET keep == {i \in 1..Len(s) : ~IsSpace(SubSeq(s, i, i))}
    IN  IF keep = {} THEN "" ELSE SubSeq(s, SetMin(keep), SetMax(keep))

RECURSIVE ToLowerCase(_)
\* String.prototype.toLowerCase
ToLowerCase(s) ==
    IF s = "" THEN ""
    ELSE LET c == SubSeq(s, 1, 1)
         IN  (IF c \in UpperChars
              THEN LET u == IndexIn(UpperLetters, c) IN SubSeq(LowerLetters, u, u)
              ELSE c)
                 \o ToLowerCase(SubSeq(s, 2, Len(s)))

\* String.prototype.indexOf, 1-based; 0 when kw does not occur
IndexOf(text, kw) ==
    LET at == {i \in 1..(Len(text) - Len(kw) + 1) : SubSeq(text, i, i + Len(kw) - 1) = kw}
    IN  IF at = {} THEN 0 ELSE SetMin(at)

\* includes matching whole words only, as a regular expression with \b would
Includes_wholeWord(text, kw) ==
    \E i \in 1..(Len(text) - Len(kw) + 1) :
        /\ SubSeq(text, i, i + Len(kw) - 1) = kw
        /\ ~IsWordChar(Chr(text, i - 1))
        /\ ~IsWordChar(Chr(text, i + Len(kw)))

\* String.prototype.includes
Includes(text, kw) ==
    \E i \in 1..(Len(text) - Len(kw) + 1) : SubSeq(text, i, i + Len(kw) - 1) = kw

RECURSIVE DigitRun(_, _)
\* length of the run of digits of s that starts at position i (greedy \d+)
DigitRun(s, i) ==
    IF i <= Len(s) /\ IsDigit(SubSeq(s, i, i)) THEN 1 + DigitRun(s, i + 1) ELSE 0

RECURSIVE LetterRun(_, _)
\* length of the run of letters of s that starts at position i (greedy [A-Za-z]+)
LetterRun(s, i) ==
    IF i <= Len(s) /\ IsLetter(SubSeq(s, i, i)) THEN 1 + LetterRun(s, i + 1) ELSE 0

RECURSIVE ParseInt(_)
\* parseInt(digits, 10) of a non-empty string of digits
ParseInt(ds) ==
    IF ds = "" THEN 0
    ELSE 10 * ParseInt(SubSeq(ds, 1, Len(ds) - 1))
            + (IndexIn(Digits, SubSeq(ds, Len(ds), Len(ds))) - 1)

RECURSIVE IntToStr(_)
\* decimal rendering of a natural number
IntToStr(n) ==
    IF n < 10 THEN SubSeq(Digits, n + 1, n + 1)
    ELSE IntToStr(n \div 10) \o SubSeq(Digits, (n % 10) + 1, (n % 10) + 1)

RECURSIVE PadStart(_, _)
\* zero padding to a width, as toISOString pads year, month and day
PadStart(s, width) == IF Len(s) >= width THEN s ELSE PadStart("0" \o s, width)

(***************************************************************************)
(* types.ts and the keyword tables of hot-ones-scraper.ts                  *)
(***************************************************************************)
PROFESSION_TAXONOMY ==
    [c \in {"Movie/TV", "Music", "Comedy", "Sports", "Food/Culinary",
            "Internet/Social Media", "Other"} |->
        CASE c = "Movie/TV" -> <<"Actor", "Actress", "Director", "Producer",
                                 "Screenwriter", "TV Personality">>
          [] c = "Music" -> <<"Rapper", "Singer", "Musician", "Songwriter", "DJ">>
          [] c = "Comedy" -> <<"Stand-up Comedian", "Sketch Comedian", "Comedy Actor">>
          [] c = "Sports" -> <<"Basketball Player", "Football Player", "Olympian", "Athlete">>
          [] c = "Food/Culinary" -> <<"Chef", "Food Critic", "Restaurateur">>
          [] c = "Internet/Social Media" -> <<"YouTuber", "TikToker", "Streamer", "Influencer">>
          [] c = "Other" -> <<"Author", "Scientist", "Politician", "Journalist">>]

\* Object.entries(categoryKeywords): the categories in declaration order
categoryKeywords ==
    << <<"Movie/TV", <<"actor", "actress", "acting", "film", "movie", "director",
                       "producer", "television", "tv show", "series", "hollywood",
                       "cinema", "screenwriter">> >>,
       <<"Music", <<"singer", "rapper", "musician", "album", "song", "music", "band",
                    "artist", "grammy", "billboard", "record", "songwriter", "dj">> >>,
       <<"Comedy", <<"comedian", "comedy", "stand-up", "standup", "sketch", "funny",
                     "humor", "snl", "saturday night live", "comic">> >>,
       <<"Sports", <<"player", "athlete", "sports", "basketball", "football",
                     "baseball", "soccer", "tennis", "olympics", "nba", "nfl", "mlb",
                     "championship">> >>,
       <<"Food/Culinary", <<"chef", "cook", "restaurant", "culinary", "food",
                            "kitchen", "cuisine", "michelin", "cookbook">> >>,
       <<"Internet/Social Media", <<"youtuber", "youtube", "tiktoker", "tiktok",
                                    "streamer", "twitch", "influencer", "social media",
                                    "viral", "content creator">> >> >>

\* Object.entries(subCategoryKeywords), in declaration order
subCategoryKeywords ==
    << <<"Actor", <<"actor", "acting">> >>,
       <<"Actress", <<"actress">> >>,
       <<"Director", <<"director", "directing">> >>,
       <<"Producer", <<"producer", "producing">> >>,
       <<"Rapper", <<"rapper", "rap", "hip hop", "hip-hop">> >>,
       <<"Singer", <<"singer", "singing", "vocalist">> >>,
       <<"Musician", <<"musician", "music">> >>,
       <<"Stand-up Comedian", <<"stand-up", "standup">> >>,
       <<"Basketball Player", <<"basketball", "nba">> >>,
       <<"Football Player", <<"football", "nfl">> >>,
       <<"Chef", <<"chef", "cook">> >>,
       <<"YouTuber", <<"youtube", "youtuber">> >>,
       <<"TikToker", <<"tiktok", "tiktoker">> >>,
       <<"Streamer", <<"streamer", "twitch">> >> >>

InSeq(x, seq) == \E i \in 1..Len(seq) : seq[i] = x

RECURSIVE SubCategoriesFrom(_, _, _)
\* the loop of determineSubCategories over subCategoryKeywords, from entry i on
SubCategoriesFrom(i, taxonomySubCategories, text) ==
    IF i > Len(subCategoryKeywords) THEN <<>>
    ELSE LET subCategory == subCategoryKeywords[i][1]
             keywords == subCategoryKeywords[i][2]
             hasMatch == \E k \in 1..Len(keywords) : Includes(text, keywords[k])
         IN  (IF InSeq(subCategory, taxonomySubCategories) /\ hasMatch
              THEN <<subCategory>> ELSE <<>>)
                 \o SubCategoriesFrom(i + 1, taxonomySubCategories, text)

\* determineSubCategories without the taxonomy test of line 236
determineSubCategories_anyCategory(category, matchedKeywords, text) ==
    LET taxonomySubCategories ==
            IF category \in DOMAIN PROFESSION_TAXONOMY
            THEN PROFESSION_TAXONOMY[category] ELSE <<>>
        allLabels == [i \in 1..Len(subCategoryKeywords) |-> subCategoryKeywords[i][1]]
        subCategories == SubCategoriesFrom(1, allLabels, text)
    IN  IF Len(subCategories) = 0 /\ Len(taxonomySubCategories) > 0
        THEN <<taxonomySubCategories[1]>>
        ELSE subCategories

\* determineSubCategories without the fallback of lines 245-247
determineSubCategories_noFallback(category, matchedKeywords, text) ==
    LET taxonomySubCategories ==
            IF category \in DOMAIN PROFESSION_TAXONOMY
            THEN PROFESSION_TAXONOMY[category] ELSE <<>>
    IN  SubCategoriesFrom(1, taxonomySubCategories, text)

determineSubCategories(category, matchedKeywords, text) ==
    LET taxonomySubCategories ==
            IF category \in DOMAIN PROFESSION_TAXONOMY
            THEN PROFESSION_TAXONOMY[category] ELSE <<>>
        subCategories == SubCategoriesFrom(1, taxonomySubCategories, text)
    IN  IF Len(subCategories) = 0 /\ Len(taxonomySubCategories) > 0
        THEN <<taxonomySubCategories[1]>>
        ELSE subCategories

RECURSIVE CategoryTagsFrom(_, _)
\* the loop of categorizeProfession over categoryKeywords, from entry i on
CategoryTagsFrom(i, combinedText) ==
    IF i > Len(categoryKeywords) THEN <<>>
    ELSE LET category == categoryKeywords[i][1]
             keywords == categoryKeywords[i][2]
             Matches(keyword) == Includes(combinedText, keyword)
             matchedKeywords == SelectSeq(keywords, Matches)
         IN  (IF Len(matchedKeywords) > 0
              THEN << [category |-> category,
                       sub_categories |->
                           determineSubCategories(category, matchedKeywords, combinedText)] >>
              ELSE <<>>)
                 \o CategoryTagsFrom(i + 1, combinedText)

\* categorizeProfession without the "Other" fallback of lines 201-207
categorizeProfession_noFallback(title, description) ==
    CategoryTagsFrom(1, ToLowerCase(title \o " " \o description))

\* categorizeProfession taking the fallback label from the taxonomy table
categorizeProfession_taxonomyFallback(title, description) ==
    LET combinedText == ToLowerCase(title \o " " \o description)
        tags == CategoryTagsFrom(1, combinedText)
    IN  IF Len(tags) = 0
        THEN << [category |-> "Other",
                 sub_categories |-> <<PROFESSION_TAXONOMY["Other"][1]>>] >>
        ELSE tags

\* categorizeProfession leaving the loop at the first category that qualifies
categorizeProfession_firstOnly(title, description) ==
    LET combinedText == ToLowerCase(title \o " " \o description)
        tags == CategoryTagsFrom(1, combinedText)
    IN  IF Len(tags) = 0
        THEN << [category |-> "Other", sub_categories |-> <<"Unknown">>] >>
        ELSE <<Head(tags)>>

categorizeProfession(title, description) ==
    LET combinedText == ToLowerCase(title \o " " \o description)
        tags == CategoryTagsFrom(1, combinedText)
    IN  IF Len(tags) = 0
        THEN << [category |-> "Other", sub_categories |-> <<"Unknown">>] >>
        ELSE tags

(***************************************************************************)
(* Dates: new Date(text) reads "<Month> <day>, <year>" as local midnight,  *)
(* toISOString renders the instant in UTC.                                 *)
(***************************************************************************)
MonthPrefixes == <<"jan", "feb", "mar", "apr", "may", "jun",
                   "jul", "aug", "sep", "oct", "nov", "dec">>

\* the month a word names (by its first three letters, any case), 0 for none
MonthNumber(word) ==
    LET p == ToLowerCase(Slice(word, 1, 3))
    IN  IF Len(word) >= 3 /\ InSeq(p, MonthPrefixes)
        THEN CHOOSE m \in 1..12 : MonthPrefixes[m] = p
        ELSE 0

IsLeapYear(y) == (y % 4 = 0 /\ y % 100 # 0) \/ y % 400 = 0

DaysInMonth(y, m) ==
    IF m = 2 THEN (IF IsLeapYear(y) THEN 29 ELSE 28)
    ELSE IF m \in {4, 6, 9, 11} THEN 30 ELSE 31

\* the calendar day before [y, m, d]
PrevDay(date) ==
    IF date.d > 1 THEN [date EXCEPT !.d = date.d - 1]
    ELSE IF date.m > 1
         THEN [y |-> date.y, m |-> date.m - 1, d |-> DaysInMonth(date.y, date.m - 1)]
         ELSE [y |-> date.y - 1, m |-> 12, d |-> 31]

\* a day number past the end of its month rolls over into the next month
RollOver(date) ==
    IF date.d <= DaysInMonth(date.y, date.m) THEN date
    ELSE IF date.m < 12
         THEN [y |-> date.y, m |-> date.m + 1, d |-> date.d - DaysInMonth(date.y, date.m)]
         ELSE [y |-> date.y + 1, m |-> 1, d |-> date.d - 31]

\* /^[A-Za-z]+ \d{1,2}, \d{4}$/.test(text)
IsDateText(text) ==
    LET w == LetterRun(text, 1)
        d == DigitRun(text, w + 2)
    IN  /\ w >= 1
        /\ Chr(text, w + 1) = " "
        /\ d \in {1, 2}
        /\ Slice(text, w + 2 + d, w + 3 + d) = ", "
        /\ DigitRun(text, w + 4 + d) = 4
        /\ Len(text) = w + 7 + d

\* the fields of a text for which IsDateText holds
DateFields(text) ==
    LET w == LetterRun(text, 1)
        d == DigitRun(text, w + 2)
    IN  [month |-> MonthNumber(Slice(text, 1, w)),
         day |-> ParseInt(Slice(text, w + 2, w + 1 + d)),
         year |-> ParseInt(Slice(text, w + 4 + d, w + 7 + d))]

\* whether new Date(text) is a valid date
IsValidDate(text) ==
    /\ IsDateText(text)
    /\ DateFields(text).month # 0
    /\ DateFields(text).day \in 1..31

\* date.toISOString().split('T')[0] for local midnight of the day, zone minutes east of UTC
ToISODate(date, zone) ==
    LET utc == IF zone > 0 THEN PrevDay(date) ELSE date
    IN  PadStart(IntToStr(utc.y), 4) \o "-" \o PadStart(IntToStr(utc.m), 2)
            \o "-" \o PadStart(IntToStr(utc.d), 2)

parseAirDate(dateString, zone) ==
    IF IsValidDate(dateString)
    THEN LET f == DateFields(dateString)
         IN  ToISODate(RollOver([y |-> f.year, m |-> f.month, d |-> f.day]), zone)
    ELSE dateString    \* toISOString throws RangeError on an invalid date: the catch

(***************************************************************************)
(* The page.  A document is the sequence of its season headers             *)
(* (h3 a[href*="/seasons/official/"]) in document order; a season is       *)
(*   [header |-> text of the link,                                         *)
(*    hasList |-> whether the h3's next sibling has class list-group,      *)
(*    items |-> its .list-group-item elements in document order]           *)
(* and an item is [label, title, inline, description]: the text of its     *)
(* .episode-label, of its h4.list-group-item-heading a, of each            *)
(* .list-inline li, and of its .list-group-item-text p ("" when the        *)
(* element is missing).                                                    *)
(***************************************************************************)
\* seasonText.match(/Season (\d+)/), then parseInt of the group; 0 without a match
SeasonNumberOf(seasonText) ==
    LET at == {i \in 1..Len(seasonText) :
                  /\ Slice(seasonText, i, i + 6) = "Season "
                  /\ DigitRun(seasonText, i + 7) >= 1}
    IN  IF at = {} THEN 0
        ELSE LET i == SetMin(at)
             IN  ParseInt(SubSeq(seasonText, i + 7, i + 6 + DigitRun(seasonText, i + 7)))

\* episodeLabel.match(/S\d+E(\d+)/), then parseInt of the group; 0 without a match
EpisodeNumberOf(episodeLabel) ==
    LET Ds(i) == DigitRun(episodeLabel, i + 1)
        at == {i \in 1..Len(episodeLabel) :
                  /\ SubSeq(episodeLabel, i, i) = "S"
                  /\ Ds(i) >= 1
                  /\ Chr(episodeLabel, i + 1 + Ds(i)) = "E"
                  /\ DigitRun(episodeLabel, i + 2 + Ds(i)) >= 1}
    IN  IF at = {} THEN 0
        ELSE LET i == SetMin(at)
                 e == i + 2 + Ds(i)
             IN  ParseInt(SubSeq(episodeLabel, e, e + DigitRun(episodeLabel, e) - 1))

RECURSIVE AirDateFrom(_, _, _)
\* the loop over dateElements from node i on: the first text of date form decides
AirDateFrom(dateElements, i, zone) ==
    IF i > Len(dateElements) THEN ""
    ELSE LET text == Trim(dateElements[i])
         IN  IF IsDateText(text) THEN parseAirDate(text, zone)
             ELSE AirDateFrom(dateElements, i + 1, zone)

\* an item whose element throws when it is read carries the field raises
Raises(episodeItem) == "raises" \in DOMAIN episodeItem

\* extractEpisodeFromItem returning null for an item without a label match
extractEpisodeFromItem_requireLabel(episodeItem, seasonNumber, zone) ==
    LET episodeNumber == EpisodeNumberOf(Trim(episodeItem.label))
        title == Trim(episodeItem.title)
    IN  IF Raises(episodeItem) \/ title = "" \/ episodeNumber = 0 THEN <<>>
        ELSE << [season_number |-> seasonNumber,
                 episode_number |-> episodeNumber,
                 title |-> title,
                 air_date |-> AirDateFrom(episodeItem.inline, 1, zone),
                 description |-> Trim(episodeItem.description),
                 tags |-> categorizeProfession(title, Trim(episodeItem.description))] >>

\* the record of the item, or no record: a sequence of length 0 or 1
extractEpisodeFromItem(episodeItem, seasonNumber, zone) ==
    LET episodeLabel == Trim(episodeItem.label)
        episodeNumber == EpisodeNumberOf(episodeLabel)
        title == Trim(episodeItem.title)
        airDate == AirDateFrom(episodeItem.inline, 1, zone)
        description == Trim(episodeItem.description)
        tags == categorizeProfession(title, description)
    IN  IF Raises(episodeItem) THEN <<>>    \* the catch of lines 135-138: null
        ELSE IF title = "" THEN <<>>
        ELSE << [season_number |-> seasonNumber,
                 episode_number |-> episodeNumber,
                 title |-> title,
                 air_date |-> airDate,
                 description |-> description,
                 tags |-> tags] >>

\* EpisodesOfItems without the try of extractEpisodeFromItem: an error in one
\* item ends the loop and the list built so far is lost
EpisodesOfItems_abortOnError(episodeItems, seasonNumber, zone) ==
    IF \E i \in 1..Len(episodeItems) : Raises(episodeItems[i]) THEN <<>>
    ELSE LET RECURSIVE From(_)
             From(i) == IF i > Len(episodeItems) THEN <<>>
                        ELSE extractEpisodeFromItem(episodeItems[i], seasonNumber, zone)
                                \o From(i + 1)
         IN  From(1)

RECURSIVE EpisodesOfItems(_, _, _)
\* the inner loop of extractEpisodes over episodeItems
EpisodesOfItems(episodeItems, seasonNumber, zone) ==
    IF episodeItems = <<>> THEN <<>>
    ELSE extractEpisodeFromItem(Head(episodeItems), seasonNumber, zone)
            \o EpisodesOfItems(Tail(episodeItems), seasonNumber, zone)

\* EpisodesOfSeason with episodes.unshift(episode) for the push of line 80
EpisodesOfSeason_unshift(seasonHeader, zone) ==
    LET seasonText == Trim(seasonHeader.header)
        seasonNumber == SeasonNumberOf(seasonText)
    IN  IF seasonHeader.hasList
        THEN LET list == EpisodesOfItems(seasonHeader.items, seasonNumber, zone)
             IN  [i \in 1..Len(list) |-> list[Len(list) + 1 - i]]
        ELSE <<>>

\* EpisodesOfSeason skipping a season whose header gives no number
EpisodesOfSeason_skipUnnumbered(seasonHeader, zone) ==
    LET seasonNumber == SeasonNumberOf(Trim(seasonHeader.header))
    IN  IF seasonHeader.hasList /\ seasonNumber # 0
        THEN EpisodesOfItems(seasonHeader.items, seasonNumber, zone)
        ELSE <<>>

\* the body of the outer loop of extractEpisodes for one season header
EpisodesOfSeason(seasonHeader, zone) ==
    LET seasonText == Trim(seasonHeader.header)
        seasonNumber == SeasonNumberOf(seasonText)
    IN  IF seasonHeader.hasList
        THEN EpisodesOfItems(seasonHeader.items, seasonNumber, zone)
        ELSE <<>>

\* extractEpisodes returning at the first header without an episode list
extractEpisodes_stopAtMissingList(document, zone) ==
    LET missing == {k \in 1..Len(document) : ~document[k].hasList}
        last == IF missing = {} THEN Len(document) ELSE SetMin(missing) - 1
        RECURSIVE Upto(_)
        Upto(k) == IF k = 0 THEN <<>> ELSE Upto(k - 1) \o EpisodesOfSeason(document[k], zone)
    IN  Upto(last)

RECURSIVE extractEpisodes(_, _)
\* the outer loop over seasonHeaders; the list is returned at line 91
extractEpisodes(document, zone) ==
    IF document = <<>> THEN <<>>
    ELSE EpisodesOfSeason(Head(document), zone) \o extractEpisodes(Tail(document), zone)

(***************************************************************************)
(* Inputs: the pages the site may serve and the zones the process may run  *)
(* in.                                                                     *)
(***************************************************************************)
MaxSeasons == 2      \* season headers in a page
MaxItems == 2        \* episode items in a page
TickMs == 15000      \* granularity of the clock

TimeZones == {-300, 0, 540}

ItemGuestOne ==
    [label |-> "S1E1", title |-> "Guest One", inline |-> <<"January 1, 2020">>,
     description |-> "A chef"]
ItemNoTitle ==
    [label |-> "S1E2", title |-> "  ", inline |-> <<>>, description |-> "No name"]
ItemBare ==
    [label |-> "Special", title |-> " Guest Two ", inline |-> <<>>, description |-> ""]

Items == {ItemGuestOne, ItemNoTitle, ItemBare}
Headers == {"Season 1", "Specials"}

RECURSIVE ItemLists(_)
\* the sequences of at most n items
ItemLists(n) ==
    IF n = 0 THEN {<<>>}
    ELSE {<<>>} \cup {<<i>> \o l : i \in Items, l \in ItemLists(n - 1)}

\* the seasons holding at most n items
Seasons(n) ==
    {[header |-> h, hasList |-> FALSE, items |-> <<>>] : h \in Headers}
        \cup {[header |-> h, hasList |-> TRUE, items |-> l] : h \in Headers, l \in ItemLists(n)}

RECURSIVE Documents(_, _)
\* the documents of at most k season headers and at most n items in all
Documents(k, n) ==
    IF k = 0 THEN {<<>>}
    ELSE {<<>>} \cup UNION {{<<s>> \o d : d \in Documents(k - 1, n - Len(s.items))} :
                               s \in Seasons(n)}

Docs == Documents(MaxSeasons, MaxItems)

\* the page of the end-to-end scenario: one season header, two items
ScenarioPage ==
    << [header |-> "Season 1", hasList |-> TRUE, items |-> <<ItemGuestOne, ItemNoTitle>>] >>

SmallDocs ==
    {<<>>, ScenarioPage,
     << [header |-> "Specials", hasList |-> TRUE, items |-> <<ItemBare>>] >>}

Feeds == {[up |-> FALSE, items |-> <<>>], [up |-> TRUE, items |-> <<>>]}

(***************************************************************************)
(* hot-ones-report.json                                                    *)
(***************************************************************************)
Absent == [state |-> "absent", value |-> <<>>]
Corrupt == [state |-> "corrupt", value |-> <<>>]

\* The JSON text of a value, as the sequence of its lexical tokens (punctuation,
\* number literals, quoted and escaped string literals); the indentation that
\* JSON.stringify(value, null, 2) adds between tokens carries no data.
RECURSIVE EscapeFrom(_, _)
\* the characters of s from position i on, with quote and backslash escaped
EscapeFrom(s, i) ==
    IF i > Len(s) THEN ""
    ELSE LET c == SubSeq(s, i, i)
         IN  (IF c \in {"\"", "\\"} THEN "\\" \o c ELSE c) \o EscapeFrom(s, i + 1)

\* the string literal of s
Quote(s) == "\"" \o EscapeFrom(s, 1) \o "\""

RECURSIVE UnescapeFrom(_, _)
\* the characters that the escaped text s denotes from position i on
UnescapeFrom(s, i) ==
    IF i > Len(s) THEN ""
    ELSE IF SubSeq(s, i, i) = "\\"
         THEN Chr(s, i + 1) \o UnescapeFrom(s, i + 2)
         ELSE SubSeq(s, i, i) \o UnescapeFrom(s, i + 1)

\* the string a string literal denotes
Unquote(token) == UnescapeFrom(Slice(token, 2, Len(token) - 1), 1)

RECURSIVE JoinComma(_)
\* the token sequences of the elements of an array or object, comma separated
JoinComma(parts) ==
    IF parts = <<>> THEN <<>>
    ELSE IF Len(parts) = 1 THEN parts[1]
    ELSE parts[1] \o <<",">> \o JoinComma(Tail(parts))

StringifyStrings(list) ==
    <<"[">> \o JoinComma([i \in 1..Len(list) |-> <<Quote(list[i])>>]) \o <<"]">>

\* an EpisodeTag: category, sub_categories
StringifyTag(tag) ==
    <<"{", Quote("category"), ":", Quote(tag.category), ",",
      Quote("sub_categories"), ":">> \o StringifyStrings(tag.sub_categories) \o <<"}">>

\* the properties of a HotOnesEpisode in the order the record literal and the
\* enhancer set them, and those that hold numbers
EpisodeKeys ==
    <<"season_number", "episode_number", "title", "air_date", "description", "tags",
      "youtube_url", "youtube_video_id", "youtube_views", "youtube_published_date",
      "youtube_search_url">>
NumberKeys == {"season_number", "episode_number", "youtube_views"}

\* StringifyEpisode writing no property whose value is the empty string
StringifyEpisode_dropEmpty(ep) ==
    LET Present(k) == k \in DOMAIN ep /\ (k \in {"air_date", "description"} => ep[k] # "")
        keys == SelectSeq(EpisodeKeys, Present)
        Member(k) ==
            <<Quote(k), ":">> \o
                (IF k \in NumberKeys THEN <<IntToStr(ep[k])>>
                 ELSE IF k = "tags"
                      THEN <<"[">> \o JoinComma([i \in 1..Len(ep.tags) |->
                                                    StringifyTag(ep.tags[i])]) \o <<"]">>
                      ELSE <<Quote(ep[k])>>)
    IN  <<"{">> \o JoinComma([i \in 1..Len(keys) |-> Member(keys[i])]) \o <<"}">>

\* one object per record: every property the record has, none for an absent one
StringifyEpisode(ep) ==
    LET Present(k) == k \in DOMAIN ep
        keys == SelectSeq(EpisodeKeys, Present)
        Member(k) ==
            <<Quote(k), ":">> \o
                (IF k \in NumberKeys THEN <<IntToStr(ep[k])>>
                 ELSE IF k = "tags"
                      THEN <<"[">> \o JoinComma([i \in 1..Len(ep.tags) |->
                                                    StringifyTag(ep.tags[i])]) \o <<"]">>
                      ELSE <<Quote(ep[k])>>)
    IN  <<"{">> \o JoinComma([i \in 1..Len(keys) |-> Member(keys[i])]) \o <<"}">>

\* JSON.stringify(episodes, null, 2) of a list of episode records
JSONStringify(list) ==
    [state |-> "json",
     value |-> <<"[">> \o JoinComma([i \in 1..Len(list) |-> StringifyEpisode(list[i])])
                   \o <<"]">>]

RECURSIVE ParseValue(_, _)
RECURSIVE ParseElements(_, _)
RECURSIVE ParseMembers(_, _)
\* the value that starts at token i, and the position after it
ParseValue(tokens, i) ==
    IF tokens[i] = "[" THEN ParseElements(tokens, i + 1)
    ELSE IF tokens[i] = "{" THEN ParseMembers(tokens, i + 1)
    ELSE IF Chr(tokens[i], 1) = "\"" THEN [val |-> Unquote(tokens[i]), next |-> i + 1]
    ELSE [val |-> ParseInt(tokens[i]), next |-> i + 1]

\* the elements of an array from token i up to its closing bracket
ParseElements(tokens, i) ==
    IF tokens[i] = "]" THEN [val |-> <<>>, next |-> i + 1]
    ELSE LET first == ParseValue(tokens, i)
             rest == IF tokens[first.next] = ","
                     THEN ParseElements(tokens, first.next + 1)
                     ELSE [val |-> <<>>, next |-> first.next + 1]
         IN  [val |-> <<first.val>> \o rest.val, next |-> rest.next]

\* the members of an object from token i up to its closing brace
ParseMembers(tokens, i) ==
    IF tokens[i] = "}" THEN [val |-> <<>>, next |-> i + 1]
    ELSE LET key == Unquote(tokens[i])
             first == ParseValue(tokens, i + 2)
             rest == IF tokens[first.next] = ","
                     THEN ParseMembers(tokens, first.next + 1)
                     ELSE [val |-> <<>>, next |-> first.next + 1]
         IN  [val |-> (key :> first.val) @@ rest.val, next |-> rest.next]

\* whether fs.readFileSync and JSON.parse succeed on the file
CanParse(file) == file.state = "json"

\* JSON.parse(cachedData)
JSONParse(file) == ParseValue(file.value, 1).val

CacheInits ==
    {Absent, Corrupt, JSONStringify(<<>>), JSONStringify(extractEpisodes(ScenarioPage, 0))}

(***************************************************************************)
(* scrapeAllEpisodes                                                       *)
(***************************************************************************)
FETCH_TIMEOUT_MS == 15000

Statuses == {200, 404, 500}

IsOk(status) == 200 <= status /\ status <= 299

\* lines 9-17: the synchronous start, up to the await of fetch
StartScrape ==
    /\ pc = "idle"
    /\ pc' = "fetching"
    /\ timer' = "armed"
    /\ elapsed' = 0
    /\ netCalls' = Append(netCalls, "page")
    /\ net' = "pending"
    /\ UNCHANGED <<html, result, returned>>

\* the throw of the try block, caught and rethrown at lines 50-53
Throw ==
    /\ pc' = "failed"
    /\ result' = "thrown"

\* time passes; a due timer runs before the clock moves on
Tick ==
    /\ exitCode = -1
    /\ pc \in {"fetching", "reading"} \/ timer = "armed"
    /\ elapsed <= FETCH_TIMEOUT_MS
    /\ ~(timer = "armed" /\ elapsed >= FETCH_TIMEOUT_MS)
    /\ elapsed' = elapsed + TickMs
    /\ UNCHANGED <<pc, timer, netCalls, net, html, result, returned>>
    /\ UNCHANGED <<tz, call, entryVars, feedVars>>

\* line 15: the timer callback, controller.abort(); the request, while it is still
\* in progress, is cancelled and its pending promise rejects
TimerFires ==
    /\ exitCode = -1
    /\ timer = "armed"
    /\ elapsed >= FETCH_TIMEOUT_MS
    /\ timer' = "fired"
    /\ IF pc \in {"fetching", "reading"}
       THEN net' = "aborted" /\ Throw
       ELSE UNCHANGED <<net, pc, result>>
    /\ UNCHANGED <<elapsed, netCalls, html, returned>>
    /\ UNCHANGED <<tz, call, entryVars, feedVars>>

\* ResponseArrives without the response.ok check of lines 34-36
ResponseArrives_ignoreStatus(status) ==
    /\ pc = "fetching"
    /\ timer' = "cleared"
    /\ net' = IF IsOk(status) THEN "headers" ELSE "http"
    /\ pc' = "reading"
    /\ UNCHANGED <<result, elapsed, netCalls, html, returned>>
    /\ UNCHANGED <<tz, call, entryVars, feedVars>>

\* lines 17-36: fetch resolves with a response of the given status
ResponseArrives(status) ==
    /\ pc = "fetching"
    /\ timer' = "cleared"
    /\ IF IsOk(status)
       THEN /\ net' = "headers"
            /\ pc' = "reading"
            /\ UNCHANGED result
       ELSE /\ net' = "http"
            /\ Throw
    /\ UNCHANGED <<elapsed, netCalls, html, returned>>
    /\ UNCHANGED <<tz, call, entryVars, feedVars>>

\* line 17: fetch rejects (DNS, connection reset, ...)
FetchRejects ==
    /\ pc = "fetching"
    /\ net' = "error"
    /\ Throw
    /\ UNCHANGED <<timer, elapsed, netCalls, html, returned>>
    /\ UNCHANGED <<tz, call, entryVars, feedVars>>

\* line 39: response.text() resolves with the body
BodyArrives(doc) ==
    /\ pc = "reading"
    /\ net' = "complete"
    /\ pc' = "parsing"
    /\ html' = doc
    /\ UNCHANGED <<timer, elapsed, netCalls, result, returned>>
    /\ UNCHANGED <<tz, call, entryVars, feedVars>>

\* line 39: response.text() rejects (the connection breaks while the body is read)
BodyFails ==
    /\ pc = "reading"
    /\ net' = "body-error"
    /\ Throw
    /\ UNCHANGED <<timer, elapsed, netCalls, html, returned>>
    /\ UNCHANGED <<tz, call, entryVars, feedVars>>

\* lines 42-43: new JSDOM(html)
ParseDocument ==
    /\ pc = "parsing"
    /\ pc' = "extracting"
    /\ UNCHANGED <<timer, elapsed, netCalls, net, html, result, returned>>
    /\ UNCHANGED <<tz, call, entryVars, feedVars>>

\* ExtractAndReturn with a throw where line 85 only warns of a missing episode list
ExtractAndReturn_throwing ==
    /\ pc = "extracting"
    /\ IF \E i \in 1..Len(html) : ~html[i].hasList
       THEN Throw /\ UNCHANGED returned
       ELSE /\ pc' = "done"
            /\ returned' = extractEpisodes(html, tz)
            /\ result' = "returned"
    /\ UNCHANGED <<timer, elapsed, netCalls, net, html>>
    /\ UNCHANGED <<tz, call, entryVars, feedVars>>

\* lines 46-49: extractEpisodes(document) and the return
ExtractAndReturn ==
    /\ pc = "extracting"
    /\ pc' = "done"
    /\ returned' = extractEpisodes(html, tz)
    /\ result' = "returned"
    /\ UNCHANGED <<timer, elapsed, netCalls, net, html>>
    /\ UNCHANGED <<tz, call, entryVars, feedVars>>

(***************************************************************************)
(* hot-ones-main.ts                                                        *)
(***************************************************************************)
NoSummary == [printed |-> FALSE]

\* the counts of the "Data Quality Check" block
DataQuality(list) ==
    LET NoTitle(ep) == ep.title = ""
        NoDate(ep) == ep.air_date = ""
        NoDescription(ep) == ep.description = ""
        Uncategorized(ep) ==
            /\ Len(ep.tags) = 1
            /\ ep.tags[1].category = "Other"
            /\ InSeq("Unknown", ep.tags[1].sub_categories)
        CountOf(Test(_)) == Cardinality({i \in 1..Len(list) : Test(list[i])})
    IN  [printed |-> TRUE,
         missingTitles |-> CountOf(NoTitle),
         missingDates |-> CountOf(NoDate),
         missingDescriptions |-> CountOf(NoDescription),
         uncategorized |-> CountOf(Uncategorized)]

\* main up to the await of scrapeAllEpisodes
MainStart ==
    /\ entry = "none"
    /\ entry' = "main"
    /\ epc' = "scraping"
    /\ StartScrape
    /\ UNCHANGED <<exitCode, cacheFile, episodes, summary, session>>
    /\ UNCHANGED <<tz, call, feedVars>>

\* MainResume without the cache write of line 20
MainResume_noWrite ==
    /\ entry = "main"
    /\ epc = "scraping"
    /\ result # "pending"
    /\ epc' = "exited"
    /\ exitCode' = IF result = "thrown" THEN 1 ELSE 0
    /\ summary' = IF result = "returned" /\ Len(returned) > 0
                  THEN DataQuality(returned) ELSE summary
    /\ UNCHANGED <<entry, episodes, cacheFile, session>>
    /\ UNCHANGED <<tz, call, scrapeVars, feedVars>>

\* main after scrapeAllEpisodes settled
MainResume ==
    /\ entry = "main"
    /\ epc = "scraping"
    /\ result # "pending"
    /\ epc' = "exited"
    /\ IF result = "thrown"
       THEN /\ exitCode' = 1
            /\ UNCHANGED <<cacheFile, summary>>
       ELSE /\ exitCode' = 0
            /\ IF Len(returned) = 0
               THEN UNCHANGED <<cacheFile, summary>>
               ELSE /\ cacheFile' = JSONStringify(returned)
                    /\ summary' = DataQuality(returned)
    /\ UNCHANGED <<entry, episodes, session>>
    /\ UNCHANGED <<tz, call, scrapeVars, feedVars>>

(***************************************************************************)
(* youtube-rss-enhancer.ts                                                 *)
(***************************************************************************)
\* a field the feed item does not have
UNDEFINED == "<undefined>"

\* U+2013 (en dash), written as a character that occurs in no modelled title
EnDash == "~"

\* url.match(/[?&]v=([^&]+)/): the group, "" without a match
extractVideoId(url) ==
    LET at == {i \in 1..Len(url) :
                  /\ Slice(url, i, i + 2) \in {"?v=", "&v="}
                  /\ Chr(url, i + 3) \notin {"", "&"}}
    IN  IF at = {} THEN ""
        ELSE LET i == SetMin(at)
                 stops == {j \in (i + 3)..Len(url) : SubSeq(url, j, j) = "&"}
             IN  Slice(url, i + 3, IF stops = {} THEN Len(url) ELSE SetMin(stops) - 1)

\* whether new Date(pubDate) is valid: the feed's timestamps are
\* YYYY-MM-DDThh:mm:ss+00:00
IsTimestamp(pubDate) ==
    /\ Len(pubDate) = 25
    /\ DigitRun(pubDate, 1) = 4 /\ Chr(pubDate, 5) = "-"
    /\ DigitRun(pubDate, 6) = 2 /\ Chr(pubDate, 8) = "-"
    /\ DigitRun(pubDate, 9) = 2 /\ Chr(pubDate, 11) = "T"
    /\ Slice(pubDate, 20, 25) = "+00:00"

\* the video data of the item, or null: a sequence of length 0 or 1
parseVideoItem(item) ==
    IF item.link = UNDEFINED \/ ~IsTimestamp(item.pubDate)
    THEN <<>>       \* TypeError of url.match, RangeError of toISOString: the catch
    ELSE << [title |-> item.title,
             youtube_url |-> item.link,
             video_id |-> IF extractVideoId(item.link) # "" THEN extractVideoId(item.link)
                          ELSE IF item.videoId # UNDEFINED THEN item.videoId ELSE "",
             published_date |-> Slice(item.pubDate, 1, 10),
             description |-> IF item.contentSnippet # UNDEFINED THEN item.contentSnippet ELSE "",
             view_count |-> 0] >>

hotOnesVariations == <<"hot ones", "first we feast">>
separators == <<"|", EnDash, "-", ":", "eats">>
stopWords == <<"the", "a", "an", "and", "or", "but", "with", "hot ones", "first we feast">>

RECURSIVE ClassRun(_, _)
\* length of the run of [:\-\s] characters of s that starts at position i
ClassRun(s, i) ==
    IF i <= Len(s) /\ (SubSeq(s, i, i) \in {":", "-"} \/ IsSpace(SubSeq(s, i, i)))
    THEN 1 + ClassRun(s, i + 1) ELSE 0

\* normalized.match(/^<prefix>[:\-\s]*(.+)/i): the trimmed group, or nothing
PrefixRemainder(normalized, prefix) ==
    LET rest == Slice(normalized, Len(prefix) + 1, Len(normalized))
        j == ClassRun(rest, 1)
        group == IF j = Len(rest) THEN Slice(rest, Len(rest), Len(rest))
                 ELSE Slice(rest, j + 1, Len(rest))
    IN  IF ToLowerCase(Slice(normalized, 1, Len(prefix))) = prefix /\ rest # ""
        THEN <<Trim(group)>>
        ELSE <<>>

\* normalized.split(sep)[0].trim(), kept when the separator occurs and the part is
\* neither empty nor the whole title
GuestPart(normalized, sep) ==
    LET at == IndexOf(normalized, sep)
        guestPart == Trim(Slice(normalized, 1, at - 1))
    IN  IF at > 0 /\ guestPart # "" /\ guestPart # normalized
        THEN <<guestPart>>
        ELSE <<>>

\* the stop word matched at position i of key between word boundaries, "" for none
StopWordAt(key, i) ==
    LET Hit(w) == /\ ToLowerCase(Slice(key, i, i + Len(w) - 1)) = w
                  /\ ~IsWordChar(Chr(key, i + Len(w)))
        hits == {k \in 1..Len(stopWords) : Hit(stopWords[k])}
    IN  IF IsWordChar(Chr(key, i - 1)) \/ hits = {} THEN ""
        ELSE stopWords[SetMin(hits)]

RECURSIVE RemoveStopWords(_, _)
\* key.replace(/\b(the|a|...|first we feast)\b/gi, ''), from position i on
RemoveStopWords(key, i) ==
    IF i > Len(key) THEN ""
    ELSE LET w == StopWordAt(key, i)
         IN  IF w # "" THEN RemoveStopWords(key, i + Len(w))
             ELSE SubSeq(key, i, i) \o RemoveStopWords(key, i + 1)

RECURSIVE CollapseSpaces(_, _)
\* key.replace(/\s+/g, ' '), from position i on
CollapseSpaces(key, i) ==
    IF i > Len(key) THEN ""
    ELSE IF IsSpace(SubSeq(key, i, i))
         THEN IF IsSpace(Chr(key, i - 1)) THEN CollapseSpaces(key, i + 1)
              ELSE " " \o CollapseSpaces(key, i + 1)
         ELSE SubSeq(key, i, i) \o CollapseSpaces(key, i + 1)

\* CleanKey without the stop-word removal of lines 188-191
CleanKey_noStopWords(key) == Trim(CollapseSpaces(key, 1))

CleanKey(key) == Trim(CollapseSpaces(RemoveStopWords(key, 1), 1))

RECURSIVE Flatten(_)
Flatten(seqs) == IF seqs = <<>> THEN <<>> ELSE Head(seqs) \o Flatten(Tail(seqs))

RECURSIVE Unique(_)
\* [...new Set(list)]: the first occurrence of each element, in order
Unique(list) ==
    IF list = <<>> THEN <<>>
    ELSE LET front == Unique(SubSeq(list, 1, Len(list) - 1))
             last == list[Len(list)]
         IN  IF InSeq(last, front) THEN front ELSE Append(front, last)

generateMatchingKeys(title) ==
    LET normalized == Trim(ToLowerCase(title))
        keys == <<normalized>>
                  \o Flatten([v \in 1..Len(hotOnesVariations) |->
                                 PrefixRemainder(normalized, hotOnesVariations[v])])
                  \o Flatten([p \in 1..Len(separators) |->
                                 GuestPart(normalized, separators[p])])
        LongEnough(key) == Len(key) > 2
        cleanedKeys == SelectSeq([k \in 1..Len(keys) |-> CleanKey(keys[k])], LongEnough)
    IN  Unique(keys \o cleanedKeys)

SeqToSet(seq) == {seq[i] : i \in 1..Len(seq)}

EmptyMap == <<>>

\* SetAbsentKeys without the videoMap.has(key) test of line 83
SetAbsentKeys_overwrite(map, keys, videoData) ==
    [k \in DOMAIN map \cup SeqToSet(keys) |->
        IF k \in SeqToSet(keys) THEN videoData ELSE map[k]]

\* keys.forEach: videoMap.set(key, videoData) for the keys videoMap does not have
SetAbsentKeys(map, keys, videoData) ==
    [k \in DOMAIN map \cup SeqToSet(keys) |->
        IF k \in DOMAIN map THEN map[k] ELSE videoData]

\* fetchYouTubeData up to the await of parser.parseURL
FeedStart ==
    /\ feedPc = "idle"
    /\ feedPc' = "fetching"
    /\ netCalls' = Append(netCalls, "feed")
    /\ UNCHANGED <<feedSrc, feedItems, feedIdx, videoMap, feedResult>>
    /\ UNCHANGED <<pc, timer, elapsed, net, html, result, returned>>
    /\ UNCHANGED <<tz, call, entryVars>>

\* line 70: parseURL resolves with the parsed feed
FeedArrives ==
    /\ feedPc = "fetching"
    /\ feedSrc.up
    /\ feedPc' = "looping"
    /\ feedItems' = feedSrc.items
    /\ feedIdx' = 0
    /\ videoMap' = EmptyMap
    /\ UNCHANGED <<feedSrc, feedResult>>
    /\ UNCHANGED <<tz, call, entryVars, scrapeVars>>

\* line 70: parseURL rejects (network error, malformed XML); the catch returns new Map()
FeedFails ==
    /\ feedPc = "fetching"
    /\ ~feedSrc.up
    /\ feedPc' = "done"
    /\ feedResult' = EmptyMap
    /\ UNCHANGED <<feedSrc, feedItems, feedIdx, videoMap>>
    /\ UNCHANGED <<tz, call, entryVars, scrapeVars>>

\* lines 77-89: one round of the loop over feed.items
ProcessFeedItem ==
    /\ feedPc = "looping"
    /\ feedIdx < Len(feedItems)
    /\ LET item == feedItems[feedIdx + 1]
           videoData == parseVideoItem(item)
       IN  IF videoData = <<>>
           THEN /\ feedIdx' = feedIdx + 1
                /\ UNCHANGED <<feedPc, videoMap, feedResult>>
           ELSE IF videoData[1].title = UNDEFINED
           THEN \* title.toLowerCase() throws TypeError: the catch returns new Map()
                /\ feedPc' = "done"
                /\ feedResult' = EmptyMap
                /\ UNCHANGED <<feedIdx, videoMap>>
           ELSE /\ videoMap' = SetAbsentKeys(videoMap,
                                   generateMatchingKeys(videoData[1].title), videoData[1])
                /\ feedIdx' = feedIdx + 1
                /\ UNCHANGED <<feedPc, feedResult>>
    /\ UNCHANGED <<feedSrc, feedItems>>
    /\ UNCHANGED <<tz, call, entryVars, scrapeVars>>

\* line 96: return videoMap
FeedReturn ==
    /\ feedPc = "looping"
    /\ feedIdx = Len(feedItems)
    /\ feedPc' = "done"
    /\ feedResult' = videoMap
    /\ UNCHANGED <<feedSrc, feedItems, feedIdx, videoMap>>
    /\ UNCHANGED <<tz, call, entryVars, scrapeVars>>

MaxFeed == 3     \* items in the feed

FeedItem(title, id, pubDate) ==
    [title |-> title, link |-> "https://www.youtube.com/watch?v=" \o id, pubDate |-> pubDate,
     videoId |-> id, contentSnippet |-> UNDEFINED]

TitleSeason == "Hot Ones: Guest A | Season X"
TitleReturns == "Guest A Returns"
TitlePlain == "Hot Ones: Guest A"

FeedPool ==
    {FeedItem(TitleSeason, "v1", "2025-08-04T15:00:00+00:00"),
     FeedItem(TitleReturns, "v2", "2025-07-28T15:00:00+00:00"),
     FeedItem(TitlePlain, "v3", "2025-07-21T15:00:00+00:00"),
     FeedItem(TitleReturns, "v4", "soon"),
     FeedItem(UNDEFINED, "v5", "2025-07-14T15:00:00+00:00")}

RECURSIVE FeedLists(_)
FeedLists(n) ==
    IF n = 0 THEN {<<>>}
    ELSE {<<>>} \cup {<<i>> \o l : i \in FeedPool, l \in FeedLists(n - 1)}

FeedSources ==
    {[up |-> FALSE, items |-> <<>>]} \cup {[up |-> TRUE, items |-> l] : l \in FeedLists(MaxFeed)}


(***************************************************************************)
(* interactive-cli.ts: start and scrapeEpisodes                            *)
(***************************************************************************)
\* The readline interface and the displayEpisode calls of one CLI process:
\*   images     TerminalImageRenderer.supportsImages() in this terminal
\*   length     this.episodes.length: <<n>>, or <<>> when the value loaded is no array
\*   closed     rl.close() was called
\*   question   the callback rl holds: "none", "top" (promptUser), "action"
\*              (handleYouTubeActions)
\*   thumbnails the displayEpisode calls waiting at the await of line 276: their
\*              episode numbers
\*   stuck      a displayEpisode call waits for an answer that no callback takes
\*   shown      the argument of the latest displayEpisode call: <<>> before the
\*              first, << <<n>> >> for the number n, << <<>> >> for NaN
\*   afterClose rl.question was called after rl.close()
NoSession ==
    [images |-> FALSE, length |-> <<>>, closed |-> FALSE, question |-> "none",
     thumbnails |-> <<>>, stuck |-> FALSE, shown |-> <<>>, afterClose |-> FALSE]

MaxDisplays == 2     \* displayEpisode calls waiting for a thumbnail at once

\* rl.question while a callback is held only writes the prompt again; the
\* callback given is dropped
PromptUser(s) ==
    IF s.closed THEN [s EXCEPT !.afterClose = TRUE]
    ELSE IF s.question = "none" THEN [s EXCEPT !.question = "top"]
    ELSE s

\* handleYouTubeActions: the promise resolves only from the callback
AskAction(s) ==
    IF s.closed THEN [s EXCEPT !.afterClose = TRUE]
    ELSE IF s.question = "none" THEN [s EXCEPT !.question = "action"]
    ELSE [s EXCEPT !.stuck = TRUE]

\* the property is set and not empty
Has(episode, key) == key \in DOMAIN episode /\ episode[key] # ""

\* displayEpisode after the thumbnail: with a youtube_url it waits for the
\* answer, else it returns and the then-callback prompts
AfterThumbnail(s, episode) ==
    IF Has(episode, "youtube_url") THEN AskAction(s) ELSE PromptUser(s)

\* whether displayEpisode(episodeNumber) stops at the await of the thumbnail
AwaitsThumbnail(s, episodeNumber) ==
    /\ episodeNumber # <<>>
    /\ Has(episodes[episodeNumber[1]], "youtube_thumbnail")
    /\ s.images

\* displayEpisode(episodeNumber) up to its first await or its end
DisplayEpisode(s, episodeNumber) ==
    LET called == [s EXCEPT !.shown = <<episodeNumber>>]
    IN  IF AwaitsThumbnail(s, episodeNumber)
        THEN [called EXCEPT !.thumbnails = Append(@, episodeNumber[1])]
        ELSE AfterThumbnail(called, episodes[episodeNumber[1]])

\* lines 69-76: with no episodes close and return, else enter the session
AfterLoad(length) ==
    IF length = <<0>>
    THEN /\ epc' = "exited"
         /\ exitCode' = 0
         /\ session' = [session EXCEPT !.length = length, !.closed = TRUE]
    ELSE /\ epc' = "session"
         /\ session' = PromptUser([session EXCEPT !.length = length])
         /\ UNCHANGED exitCode

\* this.episodes.length of the value JSON.parse gives for the file
LengthOfParsed(file) ==
    IF file.value[1] = "[" THEN <<Len(JSONParse(file))>> ELSE <<>>

\* CliStart without the cache branch of lines 46-55
CliStart_ignoreCache ==
    /\ entry = "none"
    /\ entry' = "cli"
    /\ epc' = "scraping"
    /\ StartScrape
    /\ UNCHANGED <<exitCode, episodes, cacheFile, summary, session>>
    /\ UNCHANGED <<tz, call, feedVars>>

\* start up to its first await: the cache is read, or scrapeEpisodes is called
CliStart ==
    /\ entry = "none"
    /\ entry' = "cli"
    /\ IF cacheFile.state # "absent" /\ CanParse(cacheFile)
       THEN /\ episodes' = JSONParse(cacheFile)
            /\ AfterLoad(LengthOfParsed(cacheFile))
            /\ UNCHANGED scrapeVars
       ELSE /\ epc' = "scraping"
            /\ StartScrape
            /\ UNCHANGED <<exitCode, episodes, session>>
    /\ UNCHANGED <<cacheFile, summary>>
    /\ UNCHANGED <<tz, call, feedVars>>

\* CliResume with main's catch of lines 752-755 leaving the exit code at 0
CliResume_exitZero ==
    /\ entry = "cli"
    /\ epc = "scraping"
    /\ result # "pending"
    /\ IF result = "thrown"
       THEN /\ epc' = "exited"
            /\ exitCode' = 0
            /\ UNCHANGED <<cacheFile, episodes, session>>
       ELSE /\ episodes' = returned
            /\ cacheFile' = JSONStringify(returned)
            /\ AfterLoad(<<Len(returned)>>)
    /\ UNCHANGED <<entry, summary>>
    /\ UNCHANGED <<tz, call, scrapeVars, feedVars>>

\* start after scrapeEpisodes settled: lines 95-101, then lines 69-76; a throw
\* reaches main's catch
CliResume ==
    /\ entry = "cli"
    /\ epc = "scraping"
    /\ result # "pending"
    /\ IF result = "thrown"
       THEN /\ epc' = "exited"
            /\ exitCode' = 1
            /\ UNCHANGED <<cacheFile, episodes, session>>
       ELSE /\ episodes' = returned
            /\ cacheFile' = JSONStringify(returned)
            /\ AfterLoad(<<Len(returned)>>)
    /\ UNCHANGED <<entry, summary>>
    /\ UNCHANGED <<tz, call, scrapeVars, feedVars>>

\* no function is applied on its own
NoCall == [fn |-> "none", args |-> <<>>, ret |-> <<>>, done |-> FALSE]

\* rl hands a line to the callback of promptUser
TopLevelLine ==
    /\ entry = "cli"
    /\ epc = "session"
    /\ ~session.closed
    /\ session.question = "top"

\* handleUserInput on quit, q or exit: close() ends the readline interface; the
\* process ends when nothing is left to wait for
CliQuit ==
    /\ TopLevelLine
    /\ session' = [session EXCEPT !.question = "none", !.closed = TRUE]
    /\ IF session.thumbnails = <<>>
       THEN epc' = "exited" /\ exitCode' = 0
       ELSE UNCHANGED <<epc, exitCode>>
    /\ UNCHANGED <<entry, cacheFile, episodes, summary>>
    /\ UNCHANGED <<tz, call, scrapeVars, feedVars>>

\* Math.floor(Math.random() * length) + 1: NaN when length is undefined
RandomNumbers(length) ==
    IF length = <<>> THEN {<<>>} ELSE {<<i + 1>> : i \in 0..(length[1] - 1)}

\* parseInt(input): the number of the leading digits, NaN without one
ParseEpisodeNumber(input) ==
    IF DigitRun(input, 1) = 0 THEN <<>>
    ELSE <<ParseInt(Slice(input, 1, DigitRun(input, 1)))>>

\* an error nobody catches ends the process with code 1
Uncaught(s) ==
    /\ session' = s
    /\ epc' = "exited"
    /\ exitCode' = 1

\* displayEpisode(episodeNumber).then(() => this.promptUser()); this.promptUser()
\* episodes[NaN] is undefined and reading its title throws inside the async
\* function: the promise rejects and nothing handles it
DisplayThenPrompt(s, episodeNumber) ==
    IF episodeNumber = <<>>
    THEN Uncaught(PromptUser([s EXCEPT !.shown = <<episodeNumber>>]))
    ELSE /\ AwaitsThumbnail(s, episodeNumber) => Len(s.thumbnails) < MaxDisplays
         /\ session' = PromptUser(DisplayEpisode(s, episodeNumber))
         /\ UNCHANGED <<epc, exitCode>>

\* handleUserInput for every input but quit, with the microtasks it leaves
HandleUserInput(input) ==
    /\ TopLevelLine
    /\ LET lowerInput == ToLowerCase(input)
           taken == [session EXCEPT !.question = "none"]
           episodeNumber == ParseEpisodeNumber(input)
       IN  /\ lowerInput \notin {"quit", "q", "exit"}
           /\ IF lowerInput \in {"help", "h"}
              THEN session' = PromptUser(taken) /\ UNCHANGED <<epc, exitCode>>
              ELSE IF lowerInput \in {"random", "r"}
              THEN \E number \in RandomNumbers(session.length) :
                       DisplayThenPrompt(taken, number)
              ELSE IF \/ lowerInput \in {"stats", "s"}
                      \/ Slice(lowerInput, 1, 7) \in {"search ", "season "}
              THEN IF session.length = <<>>
                   THEN Uncaught(taken)    \* this.episodes.reduce / filter is no function
                   ELSE session' = PromptUser(taken) /\ UNCHANGED <<epc, exitCode>>
              ELSE IF /\ episodeNumber # <<>>
                      /\ session.length # <<>>
                      /\ episodeNumber[1] >= 1
                      /\ episodeNumber[1] <= session.length[1]
              THEN DisplayThenPrompt(taken, episodeNumber)
              ELSE session' = PromptUser(taken) /\ UNCHANGED <<epc, exitCode>>
    /\ UNCHANGED <<entry, cacheFile, episodes, summary>>
    /\ UNCHANGED <<tz, call, scrapeVars, feedVars>>

\* displayThumbnail settles (it catches its own errors): displayEpisode goes on
\* from line 282; after close() the question it asks may throw or not,
\* depending on the readline version, and the process ends
ThumbnailSettles ==
    /\ entry = "cli"
    /\ epc = "session"
    /\ \E i \in 1..Len(session.thumbnails) :
           LET rest == SubSeq(session.thumbnails, 1, i - 1)
                           \o SubSeq(session.thumbnails, i + 1, Len(session.thumbnails))
           IN  /\ session' = AfterThumbnail([session EXCEPT !.thumbnails = rest],
                                            episodes[session.thumbnails[i]])
               /\ IF session.closed /\ rest = <<>>
                  THEN epc' = "exited" /\ exitCode' \in {0, 1}
                  ELSE UNCHANGED <<epc, exitCode>>
    /\ UNCHANGED <<entry, cacheFile, episodes, summary>>
    /\ UNCHANGED <<tz, call, scrapeVars, feedVars>>

\* rl hands a line to the callback of handleYouTubeActions: resolve() ends
\* displayEpisode and its then-callback prompts
ActionAnswer ==
    /\ entry = "cli"
    /\ epc = "session"
    /\ session.question = "action"
    /\ session' = PromptUser([session EXCEPT !.question = "none"])
    /\ UNCHANGED <<entry, epc, exitCode, cacheFile, episodes, summary>>
    /\ UNCHANGED <<tz, call, scrapeVars, feedVars>>

\* the process has ended and an entry point is started again: only
\* hot-ones-report.json is kept
NextRun ==
    /\ epc = "exited"
    /\ entry' = "none"
    /\ epc' = "init"
    /\ exitCode' = -1
    /\ episodes' = <<>>
    /\ summary' = NoSummary
    /\ session' = NoSession
    /\ pc' = "idle"
    /\ timer' = "none"
    /\ elapsed' = 0
    /\ netCalls' = <<>>
    /\ net' = "none"
    /\ html' = <<>>
    /\ result' = "pending"
    /\ returned' = <<>>
    /\ UNCHANGED <<tz, call, cacheFile, feedVars>>

ScrapeStep ==
    \/ Tick
    \/ TimerFires
    \/ \E status \in Statuses : ResponseArrives(status)
    \/ FetchRejects
    \/ BodyFails
    \/ ParseDocument
    \/ ExtractAndReturn

FeedIdle ==
    /\ feedPc = "idle"
    /\ feedItems = <<>>
    /\ feedIdx = 0
    /\ videoMap = <<>>
    /\ feedResult = <<>>

ScrapeIdle ==
    /\ pc = "idle"
    /\ timer = "none"
    /\ elapsed = 0
    /\ netCalls = <<>>
    /\ net = "none"
    /\ html = <<>>
    /\ result = "pending"
    /\ returned = <<>>

Init ==
    /\ tz \in TimeZones
    /\ entry = "none"
    /\ epc = "init"
    /\ exitCode = -1
    /\ cacheFile = Absent
    /\ episodes = <<>>
    /\ summary = NoSummary
    /\ session = NoSession
    /\ call = NoCall
    /\ ScrapeIdle
    /\ feedSrc = [up |-> FALSE, items |-> <<>>]
    /\ FeedIdle

Next ==
    \/ MainStart
    \/ ScrapeStep
    \/ pc = "reading" /\ \E doc \in Docs : BodyArrives(doc)
    \/ MainResume

Spec == Init /\ [][Next]_vars

(***************************************************************************)
(* The feed key map on its own: fetchYouTubeData called once               *)
(***************************************************************************)
InitFeed ==
    /\ tz = 0
    /\ entry = "none"
    /\ epc = "init"
    /\ exitCode = -1
    /\ cacheFile = Absent
    /\ episodes = <<>>
    /\ summary = NoSummary
    /\ session = NoSession
    /\ call = NoCall
    /\ ScrapeIdle
    /\ feedSrc \in FeedSources
    /\ FeedIdle

NextFeed ==
    \/ FeedStart
    \/ FeedArrives
    \/ FeedFails
    \/ ProcessFeedItem
    \/ FeedReturn

SpecFeed == InitFeed /\ [][NextFeed]_vars

(***************************************************************************)
(* The interactive entry point, from process start to the session          *)
(***************************************************************************)
InitCli ==
    /\ tz \in TimeZones
    /\ entry = "none"
    /\ epc = "init"
    /\ exitCode = -1
    /\ cacheFile \in CacheInits
    /\ episodes = <<>>
    /\ summary = NoSummary
    /\ session = NoSession
    /\ call = NoCall
    /\ ScrapeIdle
    /\ feedSrc \in Feeds
    /\ FeedIdle

NextCli ==
    \/ CliStart
    \/ ScrapeStep
    \/ pc = "reading" /\ \E doc \in SmallDocs : BodyArrives(doc)
    \/ CliResume

SpecCli == InitCli /\ [][NextCli]_vars

(***************************************************************************)
(* Either entry point, from process start to process exit                  *)
(***************************************************************************)
NextEntry ==
    \/ MainStart
    \/ MainResume
    \/ CliStart
    \/ CliResume
    \/ CliQuit
    \/ ScrapeStep
    \/ pc = "reading" /\ \E doc \in SmallDocs : BodyArrives(doc)

SpecEntry == InitCli /\ [][NextEntry]_vars

(***************************************************************************)
(* Single functions applied on their own                                   *)
(***************************************************************************)
\* no entry point, scrape or feed fetch is running
ProcessIdle ==
    /\ entry = "none"
    /\ epc = "init"
    /\ exitCode = -1
    /\ cacheFile = Absent
    /\ episodes = <<>>
    /\ summary = NoSummary
    /\ session = NoSession
    /\ ScrapeIdle
    /\ feedSrc = [up |-> FALSE, items |-> <<>>]
    /\ FeedIdle

Pending(fn, args) == [fn |-> fn, args |-> args, ret |-> <<>>, done |-> FALSE]

\* the cache format: a list is written by one run and read by the next
MaxJsonItems == 3    \* episode items in a page whose list is written

ItemQuoted ==
    [label |-> "S12E10", title |-> "Guest \"Q\"", inline |-> <<"March 3, 2021">>,
     description |-> "AC\\DC singer"]

JsonItems == Items \cup {ItemQuoted}

RECURSIVE JsonItemLists(_)
JsonItemLists(n) ==
    IF n = 0 THEN {<<>>}
    ELSE {<<>>} \cup {<<i>> \o l : i \in JsonItems, l \in JsonItemLists(n - 1)}

JsonDocs ==
    {<< [header |-> h, hasList |-> TRUE, items |-> l] >> :
        h \in {"Season 12", "Specials"}, l \in JsonItemLists(MaxJsonItems)}

InitJson ==
    /\ tz \in TimeZones
    /\ ProcessIdle
    /\ \E doc \in JsonDocs : call = Pending("roundTrip", <<extractEpisodes(doc, tz)>>)

\* scrapeEpisodes writes the list (line 101); the next start reads it (lines 49-50)
RoundTrip ==
    /\ call.fn = "roundTrip" /\ ~call.done
    /\ call' = [call EXCEPT !.ret = JSONParse(JSONStringify(call.args[1])), !.done = TRUE]
    /\ UNCHANGED <<tz, entryVars, scrapeVars, feedVars>>

SpecJson == InitJson /\ [][RoundTrip]_vars

\* parseAirDate
DateMonths == {"January", "March", "August", "December"}
DateDays == {1, 4, 15, 31}
DateYears == {1999, 2024, 2025}
DateStrings ==
    {m \o " " \o IntToStr(d) \o ", " \o IntToStr(y) :
        m \in DateMonths, d \in DateDays, y \in DateYears}
        \cup {"", "soon", "TBA", "not a date"}

InitDate ==
    /\ tz \in TimeZones
    /\ ProcessIdle
    /\ \E dateString \in DateStrings : call = Pending("parseAirDate", <<dateString>>)

ApplyParseAirDate ==
    /\ call.fn = "parseAirDate" /\ ~call.done
    /\ call' = [call EXCEPT !.ret = parseAirDate(call.args[1], tz), !.done = TRUE]
    /\ UNCHANGED <<tz, entryVars, scrapeVars, feedVars>>

SpecDate == InitDate /\ [][ApplyParseAirDate]_vars

\* categorizeProfession
ClassifyTitles ==
    {"Guest One", "Sean Evans", "DJ Khaled", "Gordon Ramsay", "The Therapist",
     "Shaq", "Billie", "Key & Peele", "MrBeast", "Film Star"}
ClassifyDescriptions ==
    {"", "No name", "A chef", "A therapist", "A music therapist",
     "Actress and director", "NBA player and rapper", "Stand-up comedian on YouTube",
     "Hip-hop artist", "Cookbook author", "Viral TikToker", "Olympics champion",
     "Film producer"}

InitClassify ==
    /\ tz = 0
    /\ ProcessIdle
    /\ \E title \in ClassifyTitles, description \in ClassifyDescriptions :
           call = Pending("categorizeProfession", <<title, description>>)

ApplyCategorizeProfession ==
    /\ call.fn = "categorizeProfession" /\ ~call.done
    /\ call' = [call EXCEPT !.ret = categorizeProfession(call.args[1], call.args[2]),
                            !.done = TRUE]
    /\ UNCHANGED <<tz, entryVars, scrapeVars, feedVars>>

SpecClassify == InitClassify /\ [][ApplyCategorizeProfession]_vars

(***************************************************************************)
(* Claims                                                                  *)
(***************************************************************************)
Fetching == {"fetching", "reading"}

HasSearchUrl(ep) == "youtube_search_url" \in DOMAIN ep
HasDirectLink(ep) == "youtube_url" \in DOMAIN ep

\* C1: every record that scrapeAllEpisodes returns has a non-empty title and at
\* least one tag, whatever the document.
C1_TitleAndTags ==
    result = "returned" =>
        \A i \in 1..Len(returned) :
            /\ returned[i].title # ""
            /\ Len(returned[i].tags) >= 1

\* C1 witness: a page with an untitled item was scraped, and a returned record
\* matched no keyword and carries the fallback tag.
C1_Witness ==
    /\ result = "returned"
    /\ \E s \in 1..Len(html) : \E i \in 1..Len(html[s].items) :
           html[s].hasList /\ Trim(html[s].items[i].title) = ""
    /\ \E i \in 1..Len(returned) :
           returned[i].tags = << [category |-> "Other", sub_categories |-> <<"Unknown">>] >>

\* C2: when the page request fails (non-2xx response, network error, abort by the
\* timer, broken body), scrapeAllEpisodes has thrown and no list, partial or
\* whole, was returned or written.
C2_FetchFailureIsFatal ==
    net \in {"http", "error", "aborted", "body-error"} =>
        /\ pc = "failed"
        /\ result = "thrown"
        /\ returned = <<>>
        /\ cacheFile = Absent

\* C2 witness: the timer aborted the pending request and the scrape has thrown.
C2_Witness == net = "aborted" /\ result = "thrown" /\ timer = "fired"

Transitions ==
    {<<"idle", "fetching">>, <<"fetching", "reading">>, <<"reading", "parsing">>,
     <<"parsing", "extracting">>, <<"extracting", "done">>,
     <<"fetching", "failed">>, <<"reading", "failed">>}

\* C3: the scrape moves idle -> fetching (request, then body) -> parsing ->
\* extracting -> done; failed is entered only from the fetch stage and is never
\* left, so no stage after the fetch fails the scrape.
C3_FailedOnlyFromFetching == [][pc' # pc => <<pc, pc'>> \in Transitions]_vars

\* C3 witness: a scrape is done although its page had a season header without an
\* episode list and an item without a title.
C3_Witness ==
    /\ pc = "done"
    /\ \E s \in 1..Len(html) : ~html[s].hasList
    /\ \E s \in 1..Len(html) : \E i \in 1..Len(html[s].items) :
           html[s].hasList /\ Trim(html[s].items[i].title) = ""

\* C4: once more than the timeout has elapsed since the request was issued, the
\* scrape is no longer fetching (waiting for the response or reading the body).
C4_FetchBoundedByTimeout == elapsed > FETCH_TIMEOUT_MS => pc \notin Fetching

\* C5: a completed run of the scrape entry point has made exactly two network
\* calls, the page and then the feed.
C5_TwoCallsInOrder ==
    (entry = "main" /\ epc = "exited" /\ result = "returned") =>
        netCalls = <<"page", "feed">>

\* C6: when the video feed cannot be fetched, every record of a completed scrape
\* carries a search URL and no direct link.
C6_FeedFailureGivesSearchUrls ==
    (~feedSrc.up /\ result = "returned") =>
        \A i \in 1..Len(returned) :
            HasSearchUrl(returned[i]) /\ ~HasDirectLink(returned[i])

\* the feed items, among the first n, that yield video data with a title
Keyed(n) ==
    {i \in 1..n : /\ parseVideoItem(feedItems[i]) # <<>>
                  /\ feedItems[i].title # UNDEFINED}

\* the items among the first n whose title derives key k
Derivers(k, n) ==
    {i \in Keyed(n) : k \in SeqToSet(generateMatchingKeys(feedItems[i].title))}

\* C7: after any prefix of the feed the map holds, under every key derived so
\* far, the entry of the earliest item that derived the key, and a stored value
\* is never replaced.
C7_FirstWriterWins ==
    /\ [](feedPc \in {"looping", "done"} =>
            /\ DOMAIN videoMap = UNION {SeqToSet(generateMatchingKeys(feedItems[i].title)) :
                                            i \in Keyed(feedIdx)}
            /\ \A k \in DOMAIN videoMap :
                   videoMap[k] = parseVideoItem(feedItems[SetMin(Derivers(k, feedIdx))])[1])
    /\ [][\A k \in DOMAIN videoMap :
              k \in DOMAIN videoMap' /\ videoMap'[k] = videoMap[k]]_vars

\* C7 witness: a later item derived a key that an earlier, different entry owns.
C7_Witness ==
    /\ feedPc = "looping"
    /\ \E k \in DOMAIN videoMap : \E i \in Derivers(k, feedIdx) :
           parseVideoItem(feedItems[i])[1] # videoMap[k]

\* the feed is the two given entries, in this order
FeedIs(first, second) ==
    /\ Len(feedItems) = 2
    /\ feedItems[1].title = first /\ feedItems[2].title = second
    /\ Keyed(2) = {1, 2}

KeysSeason ==
    {"hot ones: guest a | season x", "guest a | season x", "hot ones: guest a",
     "hot ones", ": guest | season x", "guest | season x", ": guest"}
KeysReturns == {"guest a returns", "guest returns"}
KeysShared == {"hot ones: guest a", "hot ones", ": guest"}

\* C8 as stated: with the feed "Hot Ones: Guest A | Season X", "Guest A Returns"
\* (either order) the two titles derive a common key, owned by the first entry.
C8_CommonKey ==
    (feedPc = "done" /\ (FeedIs(TitleSeason, TitleReturns) \/ FeedIs(TitleReturns, TitleSeason))) =>
        \E k \in DOMAIN feedResult :
            /\ k \in SeqToSet(generateMatchingKeys(TitleSeason))
            /\ k \in SeqToSet(generateMatchingKeys(TitleReturns))
            /\ feedResult[k].title = feedItems[1].title

\* C8 amended: the two titles derive no common key ("guest a" is a key of
\* neither), so in either order each entry owns all of its own keys; two entries
\* that do share keys, "Hot Ones: Guest A | Season X" and "Hot Ones: Guest A",
\* leave every shared key to the one processed first.
C8_NoCommonKey ==
    feedPc = "done" =>
        /\ (FeedIs(TitleSeason, TitleReturns) \/ FeedIs(TitleReturns, TitleSeason)) =>
               /\ DOMAIN feedResult = KeysSeason \cup KeysReturns
               /\ KeysSeason \cap KeysReturns = {}
               /\ \A k \in KeysSeason : feedResult[k].title = TitleSeason
               /\ \A k \in KeysReturns : feedResult[k].title = TitleReturns
        /\ (FeedIs(TitleSeason, TitlePlain) \/ FeedIs(TitlePlain, TitleSeason)) =>
               /\ KeysShared \subseteq DOMAIN feedResult
               /\ \A k \in KeysShared : feedResult[k].title = feedItems[1].title

\* C8 witness: the map was built from "Guest A Returns" followed by
\* "Hot Ones: Guest A | Season X".
C8_Witness ==
    /\ feedPc = "done"
    /\ FeedIs(TitleReturns, TitleSeason)
    /\ feedResult # EmptyMap

\* C9: the scenario page, scraped while the feed is empty, gives exactly the one
\* record of the scenario, with a search URL and without a direct link.
C9_EndToEnd ==
    (result = "returned" /\ html = ScenarioPage /\ feedSrc = [up |-> TRUE, items |-> <<>>]) =>
        /\ Len(returned) = 1
        /\ returned[1].season_number = 1
        /\ returned[1].episode_number = 1
        /\ returned[1].title = "Guest One"
        /\ returned[1].air_date = "2020-01-01"
        /\ returned[1].tags = << [category |-> "Food/Culinary", sub_categories |-> <<"Chef">>] >>
        /\ HasSearchUrl(returned[1])
        /\ ~HasDirectLink(returned[1])

PageCalls == Cardinality({i \in 1..Len(netCalls) : netCalls[i] = "page"})

\* C11 as stated: a run of the scrape entry point whose pipeline run completed
\* without error made that run once, wrote the serialized list to the cache file
\* and printed the data-quality summary.
C11_WritesCacheAndSummary ==
    (entry = "main" /\ epc = "exited" /\ result = "returned") =>
        /\ PageCalls = 1
        /\ cacheFile = JSONStringify(returned)
        /\ summary = DataQuality(returned)

\* C11 amended: the pipeline runs once; when it returned at least one episode the
\* cache file is the serialized list and the summary was printed; when it
\* returned no episode, nothing is written and no summary is printed.
C11_WritesUnlessEmpty ==
    /\ (entry = "main" /\ pc # "idle") => PageCalls = 1
    /\ (entry = "main" /\ epc = "exited" /\ result = "returned") =>
           IF Len(returned) > 0
           THEN cacheFile = JSONStringify(returned) /\ summary = DataQuality(returned)
           ELSE cacheFile = Absent /\ summary = NoSummary

\* C11 witness: a run wrote two episodes, one of them uncategorized and without
\* date or description.
C11_Witness ==
    /\ entry = "main" /\ epc = "exited"
    /\ Len(returned) = 2
    /\ cacheFile = JSONStringify(returned)
    /\ summary.printed /\ summary.uncategorized = 1 /\ summary.missingDates = 1

C13_JsonRoundTrip ==
    (call.fn = "roundTrip" /\ call.done) =>
        /\ call.ret = call.args[1]
        /\ Len(call.ret) = Len(call.args[1])
        /\ \A i \in 1..Len(call.ret) : DOMAIN call.ret[i] = DOMAIN call.args[1][i]

\* C13 witness: the list read back holds a record whose title has quotes and
\* one whose date and description are empty.
C13_Witness ==
    /\ call.fn = "roundTrip" /\ call.done
    /\ \E i \in 1..Len(call.ret) : call.ret[i].title = "Guest \"Q\""
    /\ \E i \in 1..Len(call.ret) : call.ret[i].air_date = "" /\ call.ret[i].description = ""

\* C14: parseAirDate renders "August 4, 2025" as "2025-08-04" in every time
\* zone and returns a string that is no date unchanged.
C14_DateNormalization ==
    (call.fn = "parseAirDate" /\ call.done) =>
        /\ call.args[1] = "August 4, 2025" => call.ret = "2025-08-04"
        /\ call.args[1] \in {"", "soon", "TBA", "not a date"} => call.ret = call.args[1]

\* the places <<season, item>> of the page whose item yields a record
Emitting ==
    {p \in (1..Len(html)) \X (1..MaxItems + 1) :
        /\ html[p[1]].hasList
        /\ p[2] <= Len(html[p[1]].items)
        /\ Trim(html[p[1]].items[p[2]].title) # ""}

\* document order of two places
Before(p, q) == p[1] < q[1] \/ (p[1] = q[1] /\ p[2] < q[2])

\* the position in the output of the record of place p
Rank(p) == 1 + Cardinality({q \in Emitting : Before(q, p)})

\* C15: the returned list holds one record per emitting item, and the record of
\* an item stands at the position the item has in document order among them:
\* season by season as the headers occur, item by item within a season.
C15_DocumentOrder ==
    result = "returned" =>
        /\ Len(returned) = Cardinality(Emitting)
        /\ \A p \in Emitting :
               <<returned[Rank(p)]>> =
                   extractEpisodeFromItem(html[p[1]].items[p[2]],
                                          SeasonNumberOf(Trim(html[p[1]].header)), tz)

\* C15 witness: two records were returned, from a page whose document order is
\* neither ascending by season number nor by episode number.
C15_Witness ==
    /\ result = "returned" /\ Len(returned) = 2
    /\ \/ returned[1].season_number > returned[2].season_number
       \/ /\ Len(html) = 1
          /\ returned[1].episode_number > returned[2].episode_number

\* the text the classifier of the applied call searches
CombinedText == ToLowerCase(call.args[1] \o " " \o call.args[2])

Classified == call.fn = "categorizeProfession" /\ call.done

\* the six categories in the order of their declaration
SixCategories ==
    <<"Movie/TV", "Music", "Comedy", "Sports", "Food/Culinary", "Internet/Social Media">>

\* whether a keyword of the category occurs in the text
HasCategoryKeyword(category, text) ==
    \E i \in 1..Len(categoryKeywords) :
        /\ categoryKeywords[i][1] = category
        /\ \E k \in 1..Len(categoryKeywords[i][2]) : Includes(text, categoryKeywords[i][2][k])

\* C16: a title and description in which no keyword of any category occurs are
\* classified as exactly [{category: "Other", sub_categories: ["Unknown"]}].
C16_NoMatchIsOtherUnknown ==
    (Classified /\ \A c \in SeqToSet(SixCategories) : ~HasCategoryKeyword(c, CombinedText)) =>
        call.ret = << [category |-> "Other", sub_categories |-> <<"Unknown">>] >>

\* C16 witness: a text containing "therapist" was classified and no keyword
\* occurred in it.
C16_Witness ==
    /\ Classified
    /\ Includes(CombinedText, "therapist")
    /\ call.ret = << [category |-> "Other", sub_categories |-> <<"Unknown">>] >>

\* C17: the categories of the returned tags are the categories that have a
\* keyword in the lower-cased text, each once, in declaration order; with no
\* such category none of the six is returned.
C17_CategoriesInDeclarationOrder ==
    Classified =>
        LET Qualifies(c) == HasCategoryKeyword(c, CombinedText)
            qualifying == SelectSeq(SixCategories, Qualifies)
            categories == [i \in 1..Len(call.ret) |-> call.ret[i].category]
        IN  IF qualifying # <<>> THEN categories = qualifying
            ELSE \A i \in 1..Len(categories) : categories[i] \notin SeqToSet(SixCategories)

\* C17 witness: two categories qualified, and Music stands before Sports in the
\* output although "nba" occurs before "rapper" in the text.
C17_Witness ==
    /\ Classified
    /\ Len(call.ret) >= 2
    /\ call.ret[1].category = "Music" /\ call.ret[2].category = "Sports"
    /\ IndexOf(CombinedText, "nba") < IndexOf(CombinedText, "rapper")

\* whether a keyword of the sub-category occurs in the text
HasSubCategoryKeyword(subCategory, text) ==
    \E i \in 1..Len(subCategoryKeywords) :
        /\ subCategoryKeywords[i][1] = subCategory
        /\ \E k \in 1..Len(subCategoryKeywords[i][2]) :
               Includes(text, subCategoryKeywords[i][2][k])

\* every sub-category label of the taxonomy table and of the keyword table
AllSubCategories ==
    UNION {SeqToSet(PROFESSION_TAXONOMY[c]) : c \in DOMAIN PROFESSION_TAXONOMY}
        \cup {subCategoryKeywords[i][1] : i \in 1..Len(subCategoryKeywords)}

\* the sub-categories of a category that the taxonomy lists and the text names
Matched(category, text) ==
    {s \in AllSubCategories :
        HasSubCategoryKeyword(s, text) /\ InSeq(s, PROFESSION_TAXONOMY[category])}

\* the returned tags of the six categories
SixTags == {i \in 1..Len(call.ret) : call.ret[i].category \in SeqToSet(SixCategories)}

\* C18 as stated: a sub-category is in the tag of a qualifying category if and
\* only if one of its keywords occurs in the text and the taxonomy lists it for
\* the category.
C18_SubCategoryIff ==
    Classified =>
        \A i \in SixTags : \A s \in AllSubCategories :
            InSeq(s, call.ret[i].sub_categories) <=> s \in Matched(call.ret[i].category, CombinedText)

\* C18 amended: when some listed sub-category has a keyword in the text, the
\* tag holds exactly those sub-categories; otherwise it holds the first listed
\* sub-category alone, without a keyword of it occurring.  Either way the tag
\* has no duplicate and no label of another category.
C18_SubCategoryIffOrFallback ==
    Classified =>
        \A i \in SixTags :
            LET tag == call.ret[i]
                matched == Matched(tag.category, CombinedText)
            IN  /\ SeqToSet(tag.sub_categories) =
                       (IF matched # {} THEN matched
                        ELSE {PROFESSION_TAXONOMY[tag.category][1]})
                /\ Cardinality(SeqToSet(tag.sub_categories)) = Len(tag.sub_categories)
                /\ SeqToSet(tag.sub_categories) \subseteq SeqToSet(PROFESSION_TAXONOMY[tag.category])

\* C18 witness: the text names sub-categories of two categories ("dj khaled" by
\* "a chef": Chef for Food/Culinary) and the Music tag does not carry Chef.
C18_Witness ==
    /\ Classified
    /\ HasSubCategoryKeyword("Chef", CombinedText)
    /\ \E i \in SixTags : call.ret[i].category = "Music"
    /\ \E i \in SixTags : call.ret[i] = [category |-> "Food/Culinary", sub_categories |-> <<"Chef">>]

\* C19: the tag of a qualifying category is never without sub-category; when no
\* listed sub-category has a keyword in the text it carries the first
\* sub-category of the taxonomy table for the category, and only that.
C19_FirstSubCategoryFallback ==
    Classified =>
        \A i \in SixTags :
            /\ Len(call.ret[i].sub_categories) >= 1
            /\ Matched(call.ret[i].category, CombinedText) = {} =>
                   call.ret[i].sub_categories = <<PROFESSION_TAXONOMY[call.ret[i].category][1]>>

\* C19 witness: Sports qualified by "olympics" alone and is tagged with the
\* first sub-category of Sports.
C19_Witness ==
    /\ Classified
    /\ ~Includes(CombinedText, "basketball") /\ ~Includes(CombinedText, "nba")
    /\ \E i \in SixTags :
           call.ret[i] = [category |-> "Sports", sub_categories |-> <<"Basketball Player">>]

\* whether some returned tag carries the sub-category
Carries(subCategory) ==
    \E i \in 1..Len(call.ret) : InSeq(subCategory, call.ret[i].sub_categories)

\* C20 as stated: a text containing "therapist" is classified with the
\* sub-category "Rapper".
C20_TherapistIsRapper ==
    (Classified /\ Includes(CombinedText, "therapist")) => Carries("Rapper")

\* C20 amended: a text containing "therapist" carries "Rapper" exactly when a
\* keyword of the Music category occurs in it, and then in its Music tag; the
\* "rap" inside "therapist" does not make Music qualify.
C20_TherapistIsRapperWithinMusic ==
    (Classified /\ Includes(CombinedText, "therapist")) =>
        /\ Carries("Rapper") <=> HasCategoryKeyword("Music", CombinedText)
        /\ \A i \in 1..Len(call.ret) :
               InSeq("Rapper", call.ret[i].sub_categories) => call.ret[i].category = "Music"

\* C20 witness: "a music therapist", with no rapper named, is tagged Rapper.
C20_Witness ==
    /\ Classified
    /\ Includes(CombinedText, "therapist")
    /\ ~Includes(CombinedText, "rapper") /\ ~Includes(CombinedText, "hip")
    /\ ~Includes(CombinedText, "dj")
    /\ \E i \in 1..Len(call.ret) :
           call.ret[i] = [category |-> "Music", sub_categories |-> <<"Rapper", "Musician">>]

(***************************************************************************)
(* extractEpisodes and extractEpisodeFromItem applied on their own         *)
(***************************************************************************)
MaxExtractItems == 2    \* episode items of the first season of a page

ItemTwoDates ==
    [label |-> "S3E4", title |-> "Guest Three",
     inline |-> <<"TV-14", " August 4, 2025 ", "March 3, 2021">>, description |-> "An actor"]
ItemBadDate ==
    [label |-> "S3E6", title |-> "Guest Five",
     inline |-> <<"Smarch 5, 2020", "January 1, 2020">>, description |-> ""]
ItemRaising ==
    [label |-> "S3E5", title |-> "Guest Four", inline |-> <<>>, description |-> "",
     raises |-> TRUE]

ExtractItems == Items \cup {ItemTwoDates, ItemBadDate, ItemRaising}

RECURSIVE ExtractItemLists(_)
ExtractItemLists(n) ==
    IF n = 0 THEN {<<>>}
    ELSE {<<>>} \cup {<<i>> \o l : i \in ExtractItems, l \in ExtractItemLists(n - 1)}

ExtractSeasons ==
    {[header |-> h, hasList |-> FALSE, items |-> <<>>] : h \in {"Season 3", "Specials"}}
        \cup {[header |-> h, hasList |-> TRUE, items |-> l] :
                 h \in {"Season 3", "Specials"}, l \in ExtractItemLists(MaxExtractItems)}

\* the seasons that may follow the first one
TrailingSeasons ==
    {[header |-> "Season 4", hasList |-> TRUE, items |-> <<ItemGuestOne>>],
     [header |-> "Bonus", hasList |-> TRUE, items |-> <<ItemBare>>]}

ExtractDocs ==
    {<<>>} \cup {<<s>> : s \in ExtractSeasons}
           \cup {<<s, t>> : s \in ExtractSeasons, t \in TrailingSeasons}

InitExtract ==
    /\ tz \in TimeZones
    /\ ProcessIdle
    /\ \/ \E doc \in ExtractDocs : call = Pending("extractEpisodes", <<doc>>)
       \/ \E item \in ExtractItems, seasonNumber \in {0, 3} :
              call = Pending("extractEpisodeFromItem", <<item, seasonNumber>>)

ApplyExtractEpisodes ==
    /\ call.fn = "extractEpisodes" /\ ~call.done
    /\ call' = [call EXCEPT !.ret = extractEpisodes(call.args[1], tz), !.done = TRUE]
    /\ UNCHANGED <<tz, entryVars, scrapeVars, feedVars>>

ApplyExtractEpisodeFromItem ==
    /\ call.fn = "extractEpisodeFromItem" /\ ~call.done
    /\ call' = [call EXCEPT
                   !.ret = extractEpisodeFromItem(call.args[1], call.args[2], tz),
                   !.done = TRUE]
    /\ UNCHANGED <<tz, entryVars, scrapeVars, feedVars>>

NextExtract == ApplyExtractEpisodes \/ ApplyExtractEpisodeFromItem

SpecExtract == InitExtract /\ [][NextExtract]_vars

\* a text of white space only
IsBlank(text) == \A i \in 1..Len(text) : IsSpace(Chr(text, i))

\* the item reads without error and has a title
Yields(item) == ~Raises(item) /\ ~IsBlank(item.title)

\* the text holds "Season " followed by a digit
IsSeasonHeader(text) ==
    \E i \in 1..Len(text) : Slice(text, i, i + 6) = "Season " /\ IsDigit(Chr(text, i + 7))

\* a finished call of extractEpisodes, its page and its list
Extracted == call.fn = "extractEpisodes" /\ call.done
Page == call.args[1]

\* the places <<season, item>> of the page whose item is to yield a record
Yielding ==
    {p \in (1..Len(Page)) \X (1..MaxExtractItems + 1) :
        /\ Page[p[1]].hasList
        /\ p[2] <= Len(Page[p[1]].items)
        /\ Yields(Page[p[1]].items[p[2]])}

\* the position in the list of the record of place p
PlaceOf(p) == 1 + Cardinality({q \in Yielding : Before(q, p)})

\* the list holds at the position of place p the record of its item
Emitted(p) ==
    /\ PlaceOf(p) <= Len(call.ret)
    /\ call.ret[PlaceOf(p)].title = Trim(Page[p[1]].items[p[2]].title)

\* C21: an item under a season header whose text does not match
\* "Season <digits>" is emitted like any other, with season_number 0.
C21_UnnumberedSeasonIsZero ==
    Extracted =>
        \A p \in Yielding :
            ~IsSeasonHeader(Page[p[1]].header) =>
                Emitted(p) /\ call.ret[PlaceOf(p)].season_number = 0

\* C21 witness: the list of a page whose first header is "Specials" starts with
\* a record of season 0.
C21_Witness ==
    /\ Extracted
    /\ Len(Page) >= 1 /\ Page[1].header = "Specials"
    /\ Len(call.ret) >= 1 /\ call.ret[1].season_number = 0

\* C22: a header without an episode list adds no record, and every item of the
\* headers after it is emitted with the number of its own season: the list
\* has exactly one record per yielding item of the page.
C22_MissingListContinues ==
    Extracted =>
        /\ Len(call.ret) = Cardinality(Yielding)
        /\ \A k \in 1..Len(Page) :
               ~Page[k].hasList =>
                   \A p \in Yielding :
                       p[1] > k =>
                           /\ Emitted(p)
                           /\ call.ret[PlaceOf(p)].season_number
                                  = IF Page[p[1]].header = "Season 4" THEN 4 ELSE 0

\* C22 witness: the first header has no list and the list returned holds the
\* record of the header after it.
C22_Witness ==
    /\ Extracted
    /\ Len(Page) = 2 /\ ~Page[1].hasList
    /\ Len(call.ret) = 1 /\ call.ret[1].season_number = 4

\* a finished call of extractEpisodeFromItem on an item read without error
ItemExtracted ==
    call.fn = "extractEpisodeFromItem" /\ call.done /\ ~Raises(call.args[1])

\* C23: an item read without error yields no record exactly when its title is
\* blank; without a label match the record has episode_number 0, without a
\* date node air_date "", without a description "".
C23_EmptyTitleOnlyRejection ==
    ItemExtracted =>
        /\ call.ret = <<>> <=> IsBlank(call.args[1].title)
        /\ call.ret # <<>> =>
              /\ Len(call.ret) = 1
              /\ call.args[1].label = "Special" => call.ret[1].episode_number = 0
              /\ call.args[1].inline = <<>> => call.ret[1].air_date = ""
              /\ call.args[1].description = "" => call.ret[1].description = ""

\* C23 witness: the item without label match, date and description yields a
\* record with 0, "" and "" in their places.
C23_Witness ==
    /\ ItemExtracted
    /\ call.args[1] = ItemBare
    /\ call.ret # <<>>
    /\ call.ret[1].episode_number = 0
    /\ call.ret[1].air_date = "" /\ call.ret[1].description = ""

\* C24: in a page with an item whose extraction raises, that item adds no
\* record and every other yielding item, before and after it, has its record
\* at its place in document order.
C24_ItemErrorIsSkipped ==
    (Extracted /\ \E k \in 1..Len(Page) : \E j \in 1..Len(Page[k].items) :
                      Raises(Page[k].items[j])) =>
        /\ Len(call.ret) = Cardinality(Yielding)
        /\ \A p \in Yielding : Emitted(p)

\* C24 witness: the raising item stands between two items whose records are the
\* list.
C24_Witness ==
    /\ Extracted
    /\ Len(Page) = 2
    /\ Page[1].items = <<ItemGuestOne, ItemRaising>>
    /\ Page[2].items = <<ItemGuestOne>>
    /\ Len(call.ret) = 2
    /\ call.ret[1].season_number # call.ret[2].season_number

\* C25: air_date is the date of the first inline node of date form as
\* YYYY-MM-DD, that node's text when it is no date, and "" without such a node.
C25_AirDateOfFirstMatch ==
    (ItemExtracted /\ call.ret # <<>>) =>
        LET inline == call.args[1].inline
            matching == {i \in 1..Len(inline) : IsDateText(Trim(inline[i]))}
            text == Trim(inline[SetMin(matching)])
            f == DateFields(text)
        IN  IF matching = {} THEN call.ret[1].air_date = ""
            ELSE IF IsValidDate(text)
                 THEN call.ret[1].air_date
                          = PadStart(IntToStr(f.year), 4) \o "-" \o PadStart(IntToStr(f.month), 2)
                                \o "-" \o PadStart(IntToStr(f.day), 2)
                 ELSE call.ret[1].air_date = text

(***************************************************************************)
(* youtube-rss-enhancer.ts: generateYouTubeSearchUrl.  An optional number  *)
(* argument is the sequence of the numbers passed: <<>> when it is         *)
(* omitted, <<n>> otherwise.                                               *)
(***************************************************************************)
\* episodeTitle.replace(/^hot ones[:\-\s]*/i, '')
StripShowPrefix(episodeTitle) ==
    IF ToLowerCase(Slice(episodeTitle, 1, 8)) = "hot ones"
    THEN Slice(episodeTitle, 9 + ClassRun(episodeTitle, 9), Len(episodeTitle))
    ELSE episodeTitle

\* s.replace(/\s*<sep>\s*.*$/, ''): the leftmost match starts at the white space
\* before the first separator and runs to the end (titles hold no line break)
CutAtSeparator(s, sep) ==
    LET at == {i \in 1..Len(s) : SubSeq(s, i, i) = sep}
        first == SetMin(at)
        before == {j \in 1..first : \A k \in j..(first - 1) : IsSpace(SubSeq(s, k, k))}
    IN  IF at = {} THEN s ELSE Slice(s, 1, SetMin(before) - 1)

\* cleanTitle of lines 212-217
CleanTitle(episodeTitle) ==
    Trim(CutAtSeparator(CutAtSeparator(CutAtSeparator(
            StripShowPrefix(episodeTitle), "|"), EnDash), "-"))

\* the characters encodeURIComponent leaves as they are, beside letters and digits
UnreservedMarks == {"-", "_", ".", "!", "*", "'", "(", ")"}

\* the escapes of the other characters that occur in a query
PercentCodes ==
    (" " :> "%20") @@ ("\"" :> "%22") @@ ("&" :> "%26") @@ (":" :> "%3A")
        @@ ("," :> "%2C") @@ ("|" :> "%7C") @@ ("/" :> "%2F") @@ ("?" :> "%3F")
        @@ ("+" :> "%2B") @@ ("#" :> "%23") @@ (EnDash :> "%E2%80%93")

RECURSIVE EncodeFrom(_, _)
EncodeFrom(s, i) ==
    IF i > Len(s) THEN ""
    ELSE LET c == SubSeq(s, i, i)
         IN  (IF c \in DOMAIN PercentCodes THEN PercentCodes[c] ELSE c)
                 \o EncodeFrom(s, i + 1)

encodeURIComponent(s) == EncodeFrom(s, 1)

RECURSIVE Join(_, _)
\* searchTerms.join(sep)
Join(searchTerms, sep) ==
    IF searchTerms = <<>> THEN ""
    ELSE IF Len(searchTerms) = 1 THEN searchTerms[1]
    ELSE searchTerms[1] \o sep \o Join(Tail(searchTerms), sep)

\* the truth value of an optional number: undefined and 0 are false
Truthy(number) == number # <<>> /\ number[1] # 0

\* generateYouTubeSearchUrl with || for the && of line 226
generateYouTubeSearchUrl_eitherNumber(episodeTitle, seasonNumber, episodeNumber) ==
    LET cleanTitle == CleanTitle(episodeTitle)
        searchTerms ==
            (IF cleanTitle # "" THEN <<"\"" \o cleanTitle \o "\"">> ELSE <<>>)
                \o <<"Hot Ones">>
                \o (IF Truthy(seasonNumber) \/ Truthy(episodeNumber)
                    THEN <<"season " \o (IF seasonNumber = <<>> THEN "undefined"
                                         ELSE IntToStr(seasonNumber[1])),
                           "episode " \o (IF episodeNumber = <<>> THEN "undefined"
                                          ELSE IntToStr(episodeNumber[1]))>>
                    ELSE <<>>)
                \o <<"spicy wings">>
    IN  "https://www.youtube.com/results?search_query="
            \o encodeURIComponent(Join(searchTerms, " "))

generateYouTubeSearchUrl(episodeTitle, seasonNumber, episodeNumber) ==
    LET cleanTitle == CleanTitle(episodeTitle)
        searchTerms ==
            (IF cleanTitle # "" THEN <<"\"" \o cleanTitle \o "\"">> ELSE <<>>)
                \o <<"Hot Ones">>
                \o (IF Truthy(seasonNumber) /\ Truthy(episodeNumber)
                    THEN <<"season " \o IntToStr(seasonNumber[1]),
                           "episode " \o IntToStr(episodeNumber[1])>>
                    ELSE <<>>)
                \o <<"spicy wings">>
    IN  "https://www.youtube.com/results?search_query="
            \o encodeURIComponent(Join(searchTerms, " "))

SearchTitles ==
    {"Gordon Ramsay", "Hot Ones: Shaq", "Jay-Z Eats Wings", "Guest One | Hot Ones",
     "Hot Ones", "  ", "Key & Peele", "HOT ONES - Billie ", "Guest Two " \o EnDash \o " Season 5",
     "Hot Ones | Best Of"}

OptionalNumbers == {<<>>, <<0>>, <<1>>, <<12>>}

InitSearch ==
    /\ tz \in TimeZones
    /\ ProcessIdle
    /\ \E episodeTitle \in SearchTitles, seasonNumber \in OptionalNumbers,
          episodeNumber \in OptionalNumbers :
           call = Pending("generateYouTubeSearchUrl",
                          <<episodeTitle, seasonNumber, episodeNumber>>)

ApplyGenerateYouTubeSearchUrl ==
    /\ call.fn = "generateYouTubeSearchUrl" /\ ~call.done
    /\ call' = [call EXCEPT
                   !.ret = generateYouTubeSearchUrl(call.args[1], call.args[2], call.args[3]),
                   !.done = TRUE]
    /\ UNCHANGED <<tz, entryVars, scrapeVars, feedVars>>

SpecSearch == InitSearch /\ [][ApplyGenerateYouTubeSearchUrl]_vars

RECURSIVE DecodeFrom(_, _)
\* the text whose percent-encoding is s from position i on
DecodeFrom(s, i) ==
    IF i > Len(s) THEN ""
    ELSE IF SubSeq(s, i, i) = "%"
         THEN LET n == IF Slice(s, i, i + 2) = "%E2" THEN 9 ELSE 3
                  c == CHOOSE c \in DOMAIN PercentCodes : PercentCodes[c] = Slice(s, i, i + n - 1)
              IN  c \o DecodeFrom(s, i + n)
         ELSE SubSeq(s, i, i) \o DecodeFrom(s, i + 1)

\* the query of the URL returned, decoded
SearchQuery == DecodeFrom(call.ret, Len("https://www.youtube.com/results?search_query=") + 1)

\* C26: the query is, in this order and separated by one space: the cleaned
\* title in double quotes when it is not empty, "Hot Ones", "season <n>" and
\* "episode <n>" exactly when both numbers are given and not 0, "spicy wings".
C26_SearchQueryTerms ==
    (call.fn = "generateYouTubeSearchUrl" /\ call.done) =>
        LET clean == CleanTitle(call.args[1])
            season == call.args[2]
            episode == call.args[3]
            both == season \in {<<1>>, <<12>>} /\ episode \in {<<1>>, <<12>>}
        IN  /\ Slice(call.ret, 1, 45) = "https://www.youtube.com/results?search_query="
            /\ SearchQuery
                  = (IF clean = "" THEN "" ELSE "\"" \o clean \o "\" ")
                        \o "Hot Ones "
                        \o (IF both
                            THEN "season " \o IntToStr(season[1]) \o " episode "
                                     \o IntToStr(episode[1]) \o " "
                            ELSE "")
                        \o "spicy wings"
            /\ call.args[1] \in {"Hot Ones", "  ", "Hot Ones | Best Of"} <=> clean = ""
            /\ call.args[1] = "Jay-Z Eats Wings" => clean = "Jay"
            /\ call.args[1] = "HOT ONES - Billie " => clean = "Billie"

\* C26 witness: the URL for a title with the show prefix and both numbers.
C26_Witness ==
    /\ call.fn = "generateYouTubeSearchUrl" /\ call.done
    /\ call.args = <<"Hot Ones: Shaq", <<12>>, <<1>>>>
    /\ call.ret = "https://www.youtube.com/results?search_query="
                      \o "%22Shaq%22%20Hot%20Ones%20season%2012%20episode%201%20spicy%20wings"

\* C27: once scrapeAllEpisodes has returned or thrown, the timer it armed is no
\* longer pending.
C27_TimerClearedWhenSettled ==
    result # "pending" => timer # "armed"

(***************************************************************************)
(* The interactive session over a cache file that some earlier run or      *)
(* tool left behind                                                        *)
(***************************************************************************)
\* a list whose first episode has a video and a thumbnail, the second a video,
\* the third neither
CacheWithVideos ==
    [state |-> "json",
     value |-> <<"[",
                 "{", Quote("title"), ":", Quote("Guest One"), ",",
                      Quote("youtube_url"), ":", Quote("https://youtu.be/a1"), ",",
                      Quote("youtube_thumbnail"), ":", Quote("https://i.ytimg.com/a1.jpg"),
                 "}", ",",
                 "{", Quote("title"), ":", Quote("Guest Two"), ",",
                      Quote("youtube_url"), ":", Quote("https://youtu.be/b2"),
                 "}", ",",
                 "{", Quote("title"), ":", Quote("Guest Three"), ",",
                      Quote("youtube_thumbnail"), ":", Quote("https://i.ytimg.com/c3.jpg"),
                 "}",
                 "]">>]

\* valid JSON that is no array
CacheObject ==
    [state |-> "json", value |-> <<"{", Quote("episodes"), ":", "[", "]", "}">>]

SessionCaches ==
    {CacheWithVideos, CacheObject, JSONStringify(extractEpisodes(ScenarioPage, 0))}

\* what the user may type
Inputs == {"help", "stats", "random", "0", "1", "2", "3", "4", "2nd", "abc", "search chef"}

InitSession ==
    /\ tz \in TimeZones
    /\ entry = "none"
    /\ epc = "init"
    /\ exitCode = -1
    /\ cacheFile \in SessionCaches
    /\ episodes = <<>>
    /\ summary = NoSummary
    /\ \E images \in BOOLEAN : session = [NoSession EXCEPT !.images = images]
    /\ call = NoCall
    /\ ScrapeIdle
    /\ feedSrc = [up |-> FALSE, items |-> <<>>]
    /\ FeedIdle

NextSession ==
    \/ CliStart
    \/ CliQuit
    \/ \E input \in Inputs : HandleUserInput(input)
    \/ ThumbnailSettles
    \/ ActionAnswer

SpecSession == InitSession /\ [][NextSession]_vars

(***************************************************************************)
(* Runs of the two entry points one after the other, from a directory      *)
(* without cache file                                                      *)
(***************************************************************************)
NextRuns ==
    \/ MainStart
    \/ MainResume
    \/ CliStart
    \/ CliResume
    \/ CliQuit
    \/ ScrapeStep
    \/ pc = "reading" /\ \E doc \in SmallDocs : BodyArrives(doc)
    \/ NextRun

SpecRuns == Init /\ [][NextRuns]_vars

\* a displayEpisode call has started and not ended
DisplayInProgress ==
    session.thumbnails # <<>> \/ session.question = "action" \/ session.stuck

\* C28: while a displayEpisode call is in progress the top-level prompt takes no
\* command, and rl.question is never called after close().
C28_DisplayAndPromptApart ==
    /\ DisplayInProgress => session.question # "top"
    /\ ~session.afterClose

\* C29: an interactive run that found an empty list in the cache file ran the
\* pipeline again: it did not end with that cache and no page request.
C29_EmptyCacheIsScrapedAgain ==
    (entry = "cli" /\ epc = "exited" /\ cacheFile = JSONStringify(<<>>)) =>
        netCalls # <<>>

\* C30: displayEpisode is called only with a number from 1 to the number of
\* loaded episodes.
C30_DisplayedNumberInRange ==
    session.shown # <<>> =>
        /\ session.shown[1] # <<>>
        /\ session.length # <<>>
        /\ session.shown[1][1] >= 1
        /\ session.shown[1][1] <= session.length[1]
====
